---- MODULE Spec2Model ----
(***************************************************************************)
(* A model of the subject-relationship resolver and of the foreign         *)
(* building-ownership attribution walk of the v3sat report scripts.        *)
(*                                                                         *)
(* Python values are modelled as follows.                                  *)
(*   - a dict with optional keys is a record; `k in d` is k \in DOMAIN d   *)
(*   - the result of d.get(k) is an option: <<>> for None, <<v>> for v     *)
(*   - truthiness of an optional number: present and different from 0      *)
(*   - a dict whose keys are the strings of numbers (JSON object) is a     *)
(*     function over strings; str() is the table StrOf                     *)
(*   - floats are exact rationals; the inputs are chosen so that every     *)
(*     quotient the code forms is an integer                               *)
(***************************************************************************)
EXTENDS Integers, Sequences, FiniteSets, TLC

VARIABLES
    \* ---- subject resolver (gdp_treemap_plotly.get_subject_relationships)
    pacts,            \* save_data['pacts']['database'], in document order
    pact_idx,         \* position of the first-pass loop over pacts.items()
    ds_keys,          \* keys of direct_subjects in insertion order
    direct_subjects,  \* overlord -> list of direct subjects
    all_subjects,     \* overlord -> list of all subjects
    ov_idx,           \* position of the loop `for overlord in direct_subjects`
    stack,            \* call stack of get_all_subjects: frames
    visited,          \* the visited set shared by one overlord's traversal
    expansions,       \* country -> times its direct list was entered in this traversal
    pc,               \* "run" | "done"
    \* ---- ownership attribution walks (one document, one record at a time)
    buildings,        \* save_data['building_manager']['database']
    ownership,        \* the record of the current loop iteration
    own_count,        \* records of building_ownership_manager processed so far
    loc,              \* the locals of the current loop iteration
    foreign_investments,          \* true_gdp_ownership: <<owner, host>> -> value
    levels_owned_abroad,          \* super_simple_foreign_report: owner -> levels
    levels_foreign_owned_within,  \* super_simple_foreign_report: host -> levels
    investments_by_entity,        \* ownership_by_entity: <<owner, host, entity>> -> levels
    ownership_matrix,             \* effective_gdp_report: <<owner, host>> -> value
    sc_ownership_matrix,          \* session_comparison: <<owner, host>> -> value
    \* ---- classify_owner_entity on its own
    building_type,    \* the argument, a string as a sequence of characters
    entity_type,      \* the returned classification, "" before the call
    \* ---- the ownership loop over entries of any JSON shape
    entry,            \* the database entry of the current iteration, with its shape
    building_shape,   \* the shape of the entry of the owned building
    state_shape,      \* the shape of the entry of the state it stands in
    raised,           \* per script, the exception that ended its walk, "" if none
    \* ---- the top level of the document
    save_data,        \* section -> "absent" | "no_database" | "database"
    \* ---- the ownership records of the document
    ownership_data,   \* the records the loop has gone through, in document order
    \* ---- the scripts run a second time over the same document
    run,              \* 1 during the first run, 2 during the second
    first_output,     \* what the first run returned, the empty record before
    \* ---- the human-country filter file
    humans_file,      \* the lines of humans.txt, each a sequence of characters
    line_idx,         \* position of the loop `for line in f`
    humans,           \* load_humans_list: the list built so far
    human_countries,  \* the ownership reports: the set built so far
    \* ---- the power-bloc reports
    power_blocs,      \* the IDs of the blocs of power_bloc_manager, in document order
    core_of,          \* country -> its power_bloc_as_core, None when it has none
    country_gdp,      \* country -> get_country_gdp(countries, country)
    bloc_idx,         \* 0 before the reports start, then the position of the
                      \* loop `for bloc_id, bloc in power_blocs.items()`
    all_countries,    \* gdp_treemap_plotly: country -> its country_data
    countries_in_blocs,  \* gdp_treemap_plotly: the countries placed so far
    bloc_members,     \* gdp_treemap_plotly: bloc -> all_bloc_members, as country IDs
    results,          \* power_bloc_report: the list of bloc records
    \* ---- the other ownership reports
    investments_by_type,         \* detailed_foreign_buildings: <<owner, host, type>> -> levels
    dfb_foreign_owned_within,    \* detailed_foreign_buildings: <<host, owner, type>> -> levels
    report_foreign_investments,  \* foreign_ownership_report: <<owner, host>> -> value
    domestic_value,              \* foreign_ownership_report: host -> value
    \* ---- the effective-GDP calculations
    country_credit,              \* country ID string -> budget.credit of the country record
    country_effective_gdps,      \* session_comparison: None until calculate_effective_gdp
                                 \* returns, then Some(country -> effective GDP)
    effective_gdp_data           \* effective_gdp_report: None until calculate_effective_gdp
                                 \* returns, then Some(country -> its record)

subj_vars == <<pacts, pact_idx, ds_keys, direct_subjects, all_subjects, ov_idx,
               stack, visited, expansions, pc>>

own_vars == <<buildings, ownership, own_count, loc, foreign_investments,
              levels_owned_abroad, levels_foreign_owned_within,
              investments_by_entity, ownership_matrix, sc_ownership_matrix>>

cls_vars == <<building_type, entity_type>>

shape_vars == <<entry, building_shape, state_shape, raised>>

twice_vars == <<run, first_output>>

humans_vars == <<humans_file, line_idx, humans, human_countries>>

bloc_vars == <<power_blocs, core_of, country_gdp, bloc_idx, all_countries,
               countries_in_blocs, bloc_members, results>>

gdp_vars == <<country_credit, country_effective_gdps, effective_gdp_data>>

walk_vars == <<investments_by_type, dfb_foreign_owned_within,
               report_foreign_investments, domestic_value, gdp_vars>>

ext_vars == <<shape_vars, save_data, ownership_data, twice_vars, humans_vars,
              bloc_vars, walk_vars>>

vars == <<subj_vars, own_vars, cls_vars, ext_vars>>

-----------------------------------------------------------------------------
(* Bounds *)

MaxId == 3
MaxPacts == 2
MaxRecords == 2
MaxChunks == 3

CountryIds == 0..MaxId

-----------------------------------------------------------------------------
(* Python helpers *)

None == <<>>

Some(v) == <<v>>

\* `o is not None` in place of the truth value: the ID 0 passes
IsNotNone(o) == o # None

\* bool(x) for an optional number: None and 0 are falsy
Truthy(o) == o # None /\ o[1] # 0

\* d.get(k) for a record d
Get(d, k) == IF k \in DOMAIN d THEN Some(d[k]) ELSE None

Range(s) == {s[i] : i \in 1..Len(s)}

\* table.get(key) for a table keyed by strings
Lookup(table, key) == IF key \in DOMAIN table THEN Some(table[key]) ELSE None

\* an empty dict
EmptyDict == [k \in {} |-> 0]

\* the sections of the document the scripts read
Sections == {"country_manager", "states", "building_manager",
             "building_ownership_manager", "pacts"}

\* the section read whether or not the document has it
database_ignoring_absence(section, content, empty) == content

\* save_data.get(section, {}).get('database', {}): the content of the section's
\* database, the empty table when the section or its database is lacking
database(section, content, empty) ==
    IF save_data[section] = "database" THEN content ELSE empty

-----------------------------------------------------------------------------
(* The parts of the state a run of one script does not touch *)

\* no ownership walk has started
OwnIdle ==
    /\ buildings = EmptyDict
    /\ ownership = EmptyDict
    /\ own_count = 0
    /\ loc = [tg |-> [skip |-> TRUE], ss |-> [skip |-> TRUE], obe |-> [skip |-> TRUE],
              eff |-> [skip |-> TRUE], sc |-> [skip |-> TRUE]]
    /\ foreign_investments = EmptyDict
    /\ levels_owned_abroad = EmptyDict
    /\ levels_foreign_owned_within = EmptyDict
    /\ investments_by_entity = EmptyDict
    /\ ownership_matrix = EmptyDict
    /\ sc_ownership_matrix = EmptyDict

\* classify_owner_entity has not been called
ClsIdle ==
    /\ building_type = <<>>
    /\ entity_type = ""

\* the subject resolver is not running
SubjIdle ==
    /\ pacts = <<>>
    /\ pact_idx = 1
    /\ ds_keys = <<>>
    /\ direct_subjects = EmptyDict
    /\ all_subjects = EmptyDict
    /\ ov_idx = 1
    /\ stack = <<>>
    /\ visited = {}
    /\ expansions = [c \in 0..MaxId |-> 0]
    /\ pc = "done"

\* every entry is taken to be a key/value record and no walk has failed
ShapeIdle ==
    /\ entry = EmptyDict
    /\ building_shape = "dict"
    /\ state_shape = "dict"
    /\ raised = [tg |-> "", eff |-> ""]

\* the document has every section, each with its database
SectionsIdle == save_data = [s \in Sections |-> "database"]

\* the records gone through are not kept
RecordsIdle == ownership_data = <<>>

\* the scripts are run once
TwiceIdle == run = 1 /\ first_output = EmptyDict

\* no filter file is being read
HumansIdle ==
    /\ humans_file = <<>>
    /\ line_idx = 1
    /\ humans = <<>>
    /\ human_countries = {}

\* the document has no power bloc
BlocsIdle ==
    /\ power_blocs = <<>>
    /\ core_of = EmptyDict
    /\ country_gdp = EmptyDict
    /\ bloc_idx = 0
    /\ all_countries = EmptyDict
    /\ countries_in_blocs = {}
    /\ bloc_members = EmptyDict
    /\ results = <<>>

\* detailed_foreign_buildings and foreign_ownership_report are not run
\* no effective GDP is calculated
GdpIdle ==
    /\ country_credit = EmptyDict
    /\ country_effective_gdps = None
    /\ effective_gdp_data = None

WalksIdle ==
    /\ investments_by_type = EmptyDict
    /\ dfb_foreign_owned_within = EmptyDict
    /\ report_foreign_investments = EmptyDict
    /\ domestic_value = EmptyDict
    /\ GdpIdle

\* the parts added to the ownership walks and the resolver are all idle
ReportsIdle == HumansIdle /\ BlocsIdle /\ WalksIdle

ExtIdle == ShapeIdle /\ SectionsIdle /\ RecordsIdle /\ TwiceIdle /\ ReportsIdle

-----------------------------------------------------------------------------
(* Subject resolver: inputs *)

subject_types == {"dominion", "puppet", "protectorate", "colony",
                  "personal_union", "chartered_company"}

\* actions a pact record is drawn with: one subject type and one other pact
PactActions == {"puppet", "alliance"}

\* a pact record: targets may lack first, second, or be absent altogether
PactInputs ==
    [action : PactActions, targets : [first : CountryIds, second : CountryIds]]
    \cup [action : PactActions, targets : [first : CountryIds]]
    \cup [action : PactActions, targets : [second : CountryIds]]
    \cup [action : PactActions]

\* pact.get('targets', {}).get(k)
pact_target(pact, k) ==
    IF "targets" \in DOMAIN pact THEN Get(pact.targets, k) ELSE None

-----------------------------------------------------------------------------
(* Subject resolver: first pass *)

\* the body of the first-pass loop without the test of the pact's action
add_direct_any_action(keys, ds, pact) ==
    LET overlord == pact_target(pact, "first")
        subject  == pact_target(pact, "second")
    IN  IF Truthy(overlord) /\ Truthy(subject)
        THEN LET o == overlord[1]
                 s == subject[1]
             IN  IF o \in DOMAIN ds
                 THEN [keys |-> keys, ds |-> [ds EXCEPT ![o] = Append(@, s)]]
                 ELSE [keys |-> Append(keys, o), ds |-> ds @@ (o :> <<s>>)]
        ELSE [keys |-> keys, ds |-> ds]

\* the body of the first-pass loop with `direct_subjects[overlord] = [subject]`
\* in place of the append
add_direct_overwrite(keys, ds, pact) ==
    LET overlord == pact_target(pact, "first")
        subject  == pact_target(pact, "second")
    IN  IF pact.action \in subject_types /\ Truthy(overlord) /\ Truthy(subject)
        THEN LET o == overlord[1]
                 s == subject[1]
             IN  IF o \in DOMAIN ds
                 THEN [keys |-> keys, ds |-> [ds EXCEPT ![o] = <<s>>]]
                 ELSE [keys |-> Append(keys, o), ds |-> ds @@ (o :> <<s>>)]
        ELSE [keys |-> keys, ds |-> ds]

\* the body of the first-pass loop: the new (keys, direct_subjects)
add_direct(keys, ds, pact) ==
    LET overlord == pact_target(pact, "first")
        subject  == pact_target(pact, "second")
    IN  IF pact.action \in subject_types /\ Truthy(overlord) /\ Truthy(subject)
        THEN LET o == overlord[1]
                 s == subject[1]
             IN  IF o \in DOMAIN ds
                 THEN [keys |-> keys, ds |-> [ds EXCEPT ![o] = Append(@, s)]]
                 ELSE [keys |-> Append(keys, o), ds |-> ds @@ (o :> <<s>>)]
        ELSE [keys |-> keys, ds |-> ds]

SubjInit ==
    /\ \E n \in 0..MaxPacts : pacts \in [1..n -> PactInputs]
    /\ pact_idx = 1
    /\ ds_keys = <<>>
    /\ direct_subjects = <<>>
    /\ all_subjects = <<>>
    /\ ov_idx = 1
    /\ stack = <<>>
    /\ visited = {}
    /\ expansions = [c \in CountryIds |-> 0]
    /\ pc = "run"
    /\ OwnIdle
    /\ ClsIdle
    /\ ExtIdle

\* one iteration of `for pact_id, pact in pacts.items()`
ProcessPact ==
    /\ pc = "run"
    /\ pact_idx <= Len(pacts)
    /\ LET r == add_direct(ds_keys, direct_subjects, pacts[pact_idx])
       IN  /\ ds_keys' = r.keys
           /\ direct_subjects' = r.ds
    /\ pact_idx' = pact_idx + 1
    /\ UNCHANGED <<pacts, all_subjects, ov_idx, stack, visited, expansions, pc>>
    /\ UNCHANGED <<own_vars, cls_vars, ext_vars>>

-----------------------------------------------------------------------------
(* Subject resolver: second pass, get_all_subjects as a call stack *)

\* direct_subjects[country_id] when country_id is a key, else nothing to loop over
direct_list(ds, country_id) ==
    IF country_id \in DOMAIN ds THEN ds[country_id] ELSE <<>>

\* the cycle check left out: every call expands
already_visited_never(country_id, vis) == FALSE

\* `if country_id in visited: return []`
already_visited(country_id, vis) == country_id \in vis

\* a fresh activation of get_all_subjects past the visited check
new_frame(country_id) == [country |-> country_id, idx |-> 1, result |-> <<>>]

\* `all_subjects[overlord] = get_all_subjects(overlord)`: the outermost call
StartTraversal ==
    /\ pc = "run"
    /\ pact_idx > Len(pacts)
    /\ stack = <<>>
    /\ ov_idx <= Len(ds_keys)
    /\ LET overlord == ds_keys[ov_idx]
       IN  /\ visited' = {overlord}
           /\ stack' = <<new_frame(overlord)>>
           /\ expansions' = [c \in CountryIds |-> IF c = overlord THEN 1 ELSE 0]
    /\ UNCHANGED <<pacts, pact_idx, ds_keys, direct_subjects, all_subjects, ov_idx, pc>>
    /\ UNCHANGED <<own_vars, cls_vars, ext_vars>>

\* one iteration of `for subject in direct_subjects[country_id]`:
\* append the subject, then call get_all_subjects(subject, visited)
VisitSubject ==
    /\ pc = "run"
    /\ stack # <<>>
    /\ LET top  == stack[Len(stack)]
           list == direct_list(direct_subjects, top.country)
       IN  /\ top.idx <= Len(list)
           /\ LET subject == list[top.idx]
                  caller  == [top EXCEPT !.idx = @ + 1,
                                         !.result = Append(@, subject)]
                  rest    == SubSeq(stack, 1, Len(stack) - 1)
              IN  IF already_visited(subject, visited)
                  THEN /\ stack' = Append(rest, caller)
                       /\ UNCHANGED <<visited, expansions>>
                  ELSE /\ stack' = Append(Append(rest, caller), new_frame(subject))
                       /\ visited' = visited \cup {subject}
                       /\ expansions' = [expansions EXCEPT ![subject] = @ + 1]
    /\ UNCHANGED <<pacts, pact_idx, ds_keys, direct_subjects, all_subjects, ov_idx, pc>>
    /\ UNCHANGED <<own_vars, cls_vars, ext_vars>>

\* `return result`: the caller extends its own result, the outermost caller
\* stores the list under the overlord
ReturnSubjects ==
    /\ pc = "run"
    /\ stack # <<>>
    /\ LET top  == stack[Len(stack)]
           list == direct_list(direct_subjects, top.country)
       IN  /\ top.idx > Len(list)
           /\ IF Len(stack) > 1
              THEN LET parent == stack[Len(stack) - 1]
                   IN  /\ stack' = Append(SubSeq(stack, 1, Len(stack) - 2),
                                          [parent EXCEPT !.result = @ \o top.result])
                       /\ UNCHANGED <<all_subjects, ov_idx>>
              ELSE /\ stack' = <<>>
                   /\ all_subjects' = all_subjects @@ (top.country :> top.result)
                   /\ ov_idx' = ov_idx + 1
    /\ UNCHANGED <<pacts, pact_idx, ds_keys, direct_subjects, visited, expansions, pc>>
    /\ UNCHANGED <<own_vars, cls_vars, ext_vars>>

\* `return all_subjects`
FinishSubjects ==
    /\ pc = "run"
    /\ pact_idx > Len(pacts)
    /\ stack = <<>>
    /\ ov_idx > Len(ds_keys)
    /\ pc' = "done"
    /\ UNCHANGED <<pacts, pact_idx, ds_keys, direct_subjects, all_subjects, ov_idx,
                   stack, visited, expansions>>
    /\ UNCHANGED <<own_vars, cls_vars, ext_vars>>

SubjNext == ProcessPact \/ StartTraversal \/ VisitSubject \/ ReturnSubjects
            \/ FinishSubjects

SpecSubjects == SubjInit /\ [][SubjNext]_vars

\* the resolver runs to completion: a step is taken whenever one is possible
FairSpecSubjects == SpecSubjects /\ WF_vars(SubjNext)

-----------------------------------------------------------------------------
(* Subject resolver: properties *)

RECURSIVE SumOver(_, _)
\* the sum of f[x] over the finite set S
SumOver(S, f) ==
    IF S = {} THEN 0
    ELSE LET x == CHOOSE y \in S : TRUE IN f[x] + SumOver(S \ {x}, f)

RECURSIVE ReachSet(_, _)
\* the least superset of S closed under the relation R
ReachSet(R, S) ==
    LET n == S \cup {t \in CountryIds : \E s \in S : <<s, t>> \in R}
    IN  IF n = S THEN S ELSE ReachSet(R, n)

\* the countries reachable from o by one or more R steps
Reach(R, o) == ReachSet(R, {t \in CountryIds : <<o, t>> \in R})

\* overlord -> subject pairs of the pact table: a pact of a recognized subject
\* type naming both countries
RecognizedPairs ==
    {<<o, s>> \in CountryIds \X CountryIds :
        \E i \in 1..Len(pacts) :
            /\ pacts[i].action \in subject_types
            /\ pact_target(pacts[i], "first") = Some(o)
            /\ pact_target(pacts[i], "second") = Some(s)}

\* overlord -> subject pairs of the adjacency map the first pass built
DirectPairs ==
    {<<o, s>> \in CountryIds \X CountryIds :
        o \in DOMAIN direct_subjects /\ s \in Range(direct_subjects[o])}

\* C1 (as claimed): once the resolver has returned, every country reachable
\* from an overlord O through one or more recognized subject pacts of the pact
\* table is in the list returned for O.
C1_Transitivity ==
    pc = "done" =>
        \A o \in CountryIds :
            \A t \in Reach(RecognizedPairs, o) :
                o \in DOMAIN all_subjects /\ t \in Range(all_subjects[o])

\* The closure itself is complete over the adjacency map of the first pass:
\* whatever is reachable through direct_subjects is listed.
ClosureCompleteOverDirect ==
    pc = "done" =>
        \A o \in DOMAIN direct_subjects :
            /\ o \in DOMAIN all_subjects
            /\ Reach(DirectPairs, o) \subseteq Range(all_subjects[o])

\* C2 (as claimed): no overlord of the output appears in its own list of
\* subjects, whatever the pact table, cyclic ones included.
C2_NoSelfSubjection ==
    pc = "done" =>
        \A o \in DOMAIN all_subjects : o \notin Range(all_subjects[o])

\* what is left to do for one activation: the list positions not yet visited
\* and its return
FrameWork(fr) == (Len(direct_list(direct_subjects, fr.country)) - fr.idx + 1) + 1

\* what an activation of country c costs from its start: one step per direct
\* subject and its return
EntryWork == [c \in CountryIds |-> Len(direct_list(direct_subjects, c)) + 1]

\* a variant of the resolver: the number of steps it can still take is at most
\* Rank, 0 once it has returned
Rank ==
    IF pc = "done" THEN 0
    ELSE IF pact_idx <= Len(pacts)
    THEN (Len(pacts) - pact_idx + 1)
         + Len(pacts) * (Len(pacts) + Cardinality(CountryIds) + 1) + 1
    ELSE LET tw == SumOver(CountryIds, EntryWork)
         IN  IF stack = <<>>
             THEN (Len(ds_keys) - ov_idx + 1) * (tw + 1) + 1
             ELSE (Len(ds_keys) - ov_idx) * (tw + 1)
                  + SumOver(CountryIds \ visited, EntryWork)
                  + SumOver(1..Len(stack), [i \in 1..Len(stack) |-> FrameWork(stack[i])])
                  + 1

\* C3: the computation terminates for every pact table, cyclic ones included:
\* every step of the resolver strictly decreases the natural number Rank; and
\* within one overlord's traversal no country's direct-subject list is entered
\* more than once.
C3_CycleSafeTermination ==
    [][/\ Rank' < Rank
       /\ Rank' >= 0
       /\ \A c \in CountryIds : expansions'[c] <= 1]_vars

\* C3 witness: the resolver has returned on a pact table with a cycle, where a
\* country was met again inside its own traversal
C3_Witness ==
    /\ pc = "done"
    /\ \E o \in DOMAIN all_subjects : o \in Reach(DirectPairs, o)

\* the same termination, as a liveness property of the fair resolver
SubjectsEventuallyDone == <>(pc = "done")

-----------------------------------------------------------------------------
(* Strings as sequences of characters; str.lower() *)

UpperLetters == <<"A", "B", "C", "D", "E", "F", "G", "H", "I", "J", "K", "L", "M", "N", "O", "P", "Q", "R", "S", "T", "U", "V", "W", "X", "Y", "Z">>

LowerLetters == <<"a", "b", "c", "d", "e", "f", "g", "h", "i", "j", "k", "l", "m", "n", "o", "p", "q", "r", "s", "t", "u", "v", "w", "x", "y", "z">>

\* the position of character c in the sequence s, 0 when absent
IndexOf(s, c) ==
    IF \E i \in 1..Len(s) : s[i] = c
    THEN CHOOSE i \in 1..Len(s) : s[i] = c
    ELSE 0

\* upper-case letter -> lower-case letter
LowerOf == [c \in Range(UpperLetters) |-> LowerLetters[IndexOf(UpperLetters, c)]]

\* lower-case letter -> upper-case letter
UpperOf == [c \in Range(LowerLetters) |-> UpperLetters[IndexOf(LowerLetters, c)]]

\* one character of str.lower(): an upper-case letter maps to its lower-case one
LowerChar(c) == IF c \in DOMAIN LowerOf THEN LowerOf[c] ELSE c

\* one character of str.upper()
UpperChar(c) == IF c \in DOMAIN UpperOf THEN UpperOf[c] ELSE c

\* str.lower()
Lower(str) == [i \in 1..Len(str) |-> LowerChar(str[i])]

\* str.upper()
Upper(str) == [i \in 1..Len(str) |-> UpperChar(str[i])]

\* `pat in str` for strings
Contains(str, pat) ==
    \E i \in 0..(Len(str) - Len(pat)) : SubSeq(str, i + 1, i + Len(pat)) = pat

\* the substrings classify_owner_entity looks for
pat_financial_district == <<"f", "i", "n", "a", "n", "c", "i", "a", "l", "_", "d", "i", "s", "t", "r", "i", "c", "t">>

pat_manor_house == <<"m", "a", "n", "o", "r", "_", "h", "o", "u", "s", "e">>

pat_regional_company == <<"r", "e", "g", "i", "o", "n", "a", "l", "_", "c", "o", "m", "p", "a", "n", "y">>

pat_company == <<"c", "o", "m", "p", "a", "n", "y">>

-----------------------------------------------------------------------------
(* ownership_by_entity.classify_owner_entity *)

\* the two company checks in the other order
classify_company_first(tag) ==
    IF tag = <<>> THEN "Unknown"
    ELSE LET t == Lower(tag)
         IN  IF Contains(t, pat_financial_district) THEN "Financial District"
             ELSE IF Contains(t, pat_manor_house) THEN "Manor House"
             ELSE IF Contains(t, pat_company) THEN "Company"
             ELSE IF Contains(t, pat_regional_company) THEN "Regional Company HQ"
             ELSE "Other Building"

\* classify_owner_entity(building_type); an empty tag stands for '' and None
classify_owner_entity(tag) ==
    IF tag = <<>> THEN "Unknown"
    ELSE LET t == Lower(tag)
         IN  IF Contains(t, pat_financial_district) THEN "Financial District"
             ELSE IF Contains(t, pat_manor_house) THEN "Manor House"
             ELSE IF Contains(t, pat_regional_company) THEN "Regional Company HQ"
             ELSE IF Contains(t, pat_company) THEN "Company"
             ELSE "Other Building"

\* pieces building-type tags are put together from
chunk_building == <<"b", "u", "i", "l", "d", "i", "n", "g", "_">>

chunk_regional == <<"r", "e", "g", "i", "o", "n", "a", "l", "_">>

chunk_Manor_House == <<"M", "a", "n", "o", "r", "_", "H", "o", "u", "s", "e">>

chunk_COMPANY == <<"C", "O", "M", "P", "A", "N", "Y">>

chunk_Financial_District == <<"F", "i", "n", "a", "n", "c", "i", "a", "l", "_", "D", "i", "s", "t", "r", "i", "c", "t">>

chunk_hq == <<"_", "h", "q">>

chunk_steel_mills == <<"s", "t", "e", "e", "l", "_", "m", "i", "l", "l", "s">>

TagChunks == {chunk_building, pat_financial_district, pat_manor_house, chunk_regional,
              pat_company, chunk_Manor_House, chunk_COMPANY, chunk_Financial_District,
              chunk_hq}

RECURSIVE Concat(_)
\* the concatenation of a sequence of strings
Concat(ss) == IF ss = <<>> THEN <<>> ELSE ss[1] \o Concat(Tail(ss))

\* the tags classify_owner_entity is called with: up to MaxChunks pieces
TagInputs == {Concat(ss) : ss \in UNION {[1..n -> TagChunks] : n \in 0..MaxChunks}}

ClsInit ==
    /\ building_type \in TagInputs
    /\ entity_type = ""
    /\ SubjIdle
    /\ OwnIdle
    /\ ExtIdle

\* the call classify_owner_entity(building_type)
Classify ==
    /\ entity_type = ""
    /\ entity_type' = classify_owner_entity(building_type)
    /\ UNCHANGED <<building_type, subj_vars, own_vars, ext_vars>>

ClsNext == Classify

SpecClassify == ClsInit /\ [][ClsNext]_vars

\* the class the claimed rule gives a non-empty tag: the first of the four
\* substrings, in the fixed order, found in the lower-cased tag
ClaimedClass(tag) ==
    LET t == Lower(tag)
        hits == <<Contains(t, pat_financial_district), Contains(t, pat_manor_house),
                  Contains(t, pat_regional_company), Contains(t, pat_company)>>
        names == <<"Financial District", "Manor House", "Regional Company HQ", "Company">>
    IN  IF \E i \in 1..4 : hits[i]
        THEN names[CHOOSE i \in 1..4 : hits[i] /\ \A j \in 1..(i - 1) : ~hits[j]]
        ELSE "Other Building"

\* C10 (as claimed): for every tag the result is the first match in the order
\* financial_district, manor_house, regional_company, company, otherwise
\* "Other Building", whatever the letter case.
C10_ClassifyPriority ==
    entity_type # "" =>
        /\ entity_type = ClaimedClass(building_type)
        /\ classify_owner_entity(Upper(building_type)) = entity_type
        /\ classify_owner_entity(Lower(building_type)) = entity_type

\* C10 (amended): the same for every non-empty tag; an empty or missing tag is
\* classified "Unknown" before any matching.
C10_ClassifyPriorityNonEmpty ==
    entity_type # "" =>
        /\ building_type # <<>> => entity_type = ClaimedClass(building_type)
        /\ building_type = <<>> => entity_type = "Unknown"
        /\ classify_owner_entity(Upper(building_type)) = entity_type
        /\ classify_owner_entity(Lower(building_type)) = entity_type

\* C10 witness: a mixed-case tag holding both regional_company and company has
\* been classified "Regional Company HQ"
C10_Witness ==
    /\ entity_type = "Regional Company HQ"
    /\ building_type # Lower(building_type)
    /\ Contains(Lower(building_type), pat_regional_company)
    /\ Contains(Lower(building_type), pat_company)

-----------------------------------------------------------------------------
(* The ownership walks: the document *)

\* str() of an optional number: the decimal string, "None" for None
StrOf == (0 :> "0") @@ (1 :> "1") @@ (2 :> "2") @@ (50 :> "50") @@ (51 :> "51") @@ (52 :> "52") @@ (54 :> "54")
         @@ (100 :> "100") @@ (101 :> "101") @@ (200 :> "200") @@ (201 :> "201") @@ (202 :> "202")
         @@ (203 :> "203") @@ (999 :> "999")

Str(o) == IF o = None THEN "None" ELSE StrOf[o[1]]

\* the states of the document: state 50 is country 2's, 51 country 1's, 52
\* belongs to the country whose ID is 0; there is no state 54
states_database == ("50" :> [country |-> 2]) @@ ("51" :> [country |-> 1])
                   @@ ("52" :> [country |-> 0])

\* states = save_data.get('states', {}).get('database', {})
states == database("states", states_database, EmptyDict)

\* the countries of the document: country 1 carries a tag, country 0 an empty
\* one, and country 2, which owns state 50, is not on record
countries_database == ("1" :> [definition |-> "GBR"]) @@ ("0" :> [definition |-> ""])

\* countries = save_data.get('country_manager', {}).get('database', {})
countries == database("country_manager", countries_database, EmptyDict)

tag_owned == chunk_building \o chunk_steel_mills

\* the building the ownership records point at: any location, level count
\* (negative, zero, positive or absent) and any of the three valuation cases
OwnedBuildingInputs ==
    [building : {tag_owned}, state : {50, 51, 52}, levels : {-2, 0, 5, 10},
     cash_reserves : {0, 1000}, profit_after_reserves : {0, 100}]
    \cup [building : {tag_owned}, state : {50, 51, 52},
          cash_reserves : {0, 1000}, profit_after_reserves : {0, 100}]
    \cup [building : {tag_owned}, state : {50, 51, 52}, levels : {-2, 0, 5, 10}]

\* the owning buildings: a company HQ in country 1, a financial district in
\* country 2, a regional company in country 0, a manor house whose state is gone
OwnerBuildings ==
    ("200" :> [building |-> chunk_building \o pat_company \o chunk_hq,
               state |-> 51, levels |-> 1])
    @@ ("201" :> [building |-> chunk_building \o pat_financial_district,
                  state |-> 50, levels |-> 1])
    @@ ("202" :> [building |-> chunk_building \o chunk_regional \o chunk_COMPANY,
                  state |-> 52, levels |-> 1])
    @@ ("203" :> [building |-> chunk_building \o pat_manor_house,
                  state |-> 54, levels |-> 1])

\* the identity of an ownership record: a country, a building, or both keys
IdentityInputs ==
    [country : {0, 1, 2}] \cup [building : {200, 201, 202, 203, 999}]
    \cup [country : {1}, building : {201}]

\* the records of building_ownership_manager: building 999 does not exist
OwnershipInputs ==
    [building : {100, 999}, levels : {0, 3, 4}, identity : IdentityInputs]

-----------------------------------------------------------------------------
(* The ownership walks: helpers shared by the scripts *)

\* d[key] = v in place of the addition
Add_overwrite(d, key, v) ==
    IF key \in DOMAIN d THEN [d EXCEPT ![key] = v] ELSE d @@ (key :> v)

\* d[key] += v on a defaultdict
Add(d, key, v) ==
    IF key \in DOMAIN d THEN [d EXCEPT ![key] = @ + v] ELSE d @@ (key :> v)

\* a / b for a quotient that is an integer
Quot(a, b) == IF b < 0 THEN -(a \div (-b)) ELSE a \div b

\* x * ratio, the ratio kept as numerator and denominator
RatMul(x, r) == Quot(x * r.num, r.den)

\* d.get(k, default) for a numeric field
GetOr(d, k, default) == IF k \in DOMAIN d THEN d[k] ELSE default

\* the head of the loop body without the test of `levels > 0`
resolve_target_any_levels(bs, own) ==
    LET owned_building_id == Str(Get(own, "building"))
        levels == GetOr(own, "levels", 0)
        building == Lookup(bs, owned_building_id)
    IN  IF building = None \/ DOMAIN building[1] = {} THEN [skip |-> TRUE]
        ELSE LET state == Lookup(states, Str(Get(building[1], "state")))
             IN  IF state = None \/ DOMAIN state[1] = {} THEN [skip |-> TRUE]
                 ELSE LET target_country == Get(state[1], "country")
                      IN  IF ~Truthy(target_country) THEN [skip |-> TRUE]
                          ELSE [skip |-> FALSE, levels |-> levels,
                                building |-> building[1],
                                target_country |-> target_country]

\* the head of the loop body, the same text in true_gdp_ownership,
\* super_simple_foreign_report and ownership_by_entity: the record is skipped
\* or yields the owned building and the country it stands in
resolve_target(bs, own) ==
    LET owned_building_id == Str(Get(own, "building"))
        levels == GetOr(own, "levels", 0)
        building == Lookup(bs, owned_building_id)
    IN  IF ~(levels > 0) THEN [skip |-> TRUE]
        ELSE IF building = None \/ DOMAIN building[1] = {} THEN [skip |-> TRUE]
        ELSE LET state == Lookup(states, Str(Get(building[1], "state")))
             IN  IF state = None \/ DOMAIN state[1] = {} THEN [skip |-> TRUE]
                 ELSE LET target_country == Get(state[1], "country")
                      IN  IF ~Truthy(target_country) THEN [skip |-> TRUE]
                          ELSE [skip |-> FALSE, levels |-> levels,
                                building |-> building[1],
                                target_country |-> target_country]

\* the same head in effective_gdp_report and session_comparison, which test
\* `state_id not in states`
eff_resolve_target(bs, own) ==
    LET owned_building_id == Str(Get(own, "building"))
        levels == GetOr(own, "levels", 0)
        building == Lookup(bs, owned_building_id)
    IN  IF ~(levels > 0) THEN [skip |-> TRUE]
        ELSE IF building = None \/ DOMAIN building[1] = {} THEN [skip |-> TRUE]
        ELSE LET state_id == Str(Get(building[1], "state"))
             IN  IF state_id \notin DOMAIN states THEN [skip |-> TRUE]
                 ELSE LET host_country_id == Get(states[state_id], "country")
                      IN  IF ~Truthy(host_country_id) THEN [skip |-> TRUE]
                          ELSE [skip |-> FALSE, levels |-> levels,
                                building |-> building[1],
                                target_country |-> host_country_id]

\* the two branches in the other order: the owning building is looked up first
resolve_owner_building_first(bs, identity) ==
    IF "building" \in DOMAIN identity
    THEN LET owner_building_id == Str(Some(identity.building))
         IN  IF owner_building_id \in DOMAIN bs
             THEN LET owner_state_id == Str(Get(bs[owner_building_id], "state"))
                  IN  IF owner_state_id \in DOMAIN states
                      THEN Get(states[owner_state_id], "country")
                      ELSE None
             ELSE None
    ELSE IF "country" \in DOMAIN identity THEN Some(identity.country)
    ELSE None

\* "Determine the owner's country": identity.country, else the country of the
\* state of the owning building, else None
resolve_owner(bs, identity) ==
    IF "country" \in DOMAIN identity THEN Some(identity.country)
    ELSE IF "building" \in DOMAIN identity
    THEN LET owner_building_id == Str(Some(identity.building))
         IN  IF owner_building_id \in DOMAIN bs
             THEN LET owner_state_id == Str(Get(bs[owner_building_id], "state"))
                  IN  IF owner_state_id \in DOMAIN states
                      THEN Get(states[owner_state_id], "country")
                      ELSE None
             ELSE None
    ELSE None

\* the default of owner_building.get('building', 'unknown')
str_unknown == <<"u", "n", "k", "n", "o", "w", "n">>

\* the entity type with `owner_building.get('building')` read without its
\* default
obe_entity_type_no_default(bs, identity) ==
    IF "country" \in DOMAIN identity THEN "Direct Government"
    ELSE IF "building" \in DOMAIN identity
    THEN LET owner_building_id == Str(Some(identity.building))
         IN  IF owner_building_id \in DOMAIN bs
             THEN classify_owner_entity(GetOr(bs[owner_building_id], "building", <<>>))
             ELSE "Unknown"
    ELSE "Unknown"

\* ownership_by_entity: the entity type found next to the owner's country
obe_entity_type(bs, identity) ==
    IF "country" \in DOMAIN identity THEN "Direct Government"
    ELSE IF "building" \in DOMAIN identity
    THEN LET owner_building_id == Str(Some(identity.building))
         IN  IF owner_building_id \in DOMAIN bs
             THEN classify_owner_entity(GetOr(bs[owner_building_id], "building", str_unknown))
             ELSE "Unknown"
    ELSE "Unknown"

-----------------------------------------------------------------------------
(* The ownership walks: value estimation *)

\* the guard testing `building_levels != 0`
tg_ownership_ratio_nonzero(levels, building) ==
    LET building_levels == GetOr(building, "levels", 1)
    IN  IF building_levels # 0
        THEN [num |-> levels, den |-> building_levels]
        ELSE [num |-> 0, den |-> 1]

\* the absent level count defaulting to 0
tg_ownership_ratio_default0(levels, building) ==
    LET building_levels == GetOr(building, "levels", 0)
    IN  IF building_levels > 0
        THEN [num |-> levels, den |-> building_levels]
        ELSE [num |-> 0, den |-> 1]

\* true_gdp_ownership: ownership_ratio = levels / building_levels if building_levels > 0 else 0
tg_ownership_ratio(levels, building) ==
    LET building_levels == GetOr(building, "levels", 1)
    IN  IF building_levels > 0
        THEN [num |-> levels, den |-> building_levels]
        ELSE [num |-> 0, den |-> 1]

\* the profit branch tested before the cash branch
tg_building_value_profit_first(levels, building) ==
    LET ownership_ratio == tg_ownership_ratio(levels, building)
        cash_reserves == GetOr(building, "cash_reserves", 0)
        profit_after_reserves == GetOr(building, "profit_after_reserves", 0)
    IN  IF profit_after_reserves > 0
        THEN RatMul(profit_after_reserves * 52, ownership_ratio) * 10
        ELSE IF cash_reserves > 0 THEN RatMul(cash_reserves, ownership_ratio)
        ELSE levels * 50000

\* true_gdp_ownership: the three-branch estimate of the stake's value
tg_building_value(levels, building) ==
    LET ownership_ratio == tg_ownership_ratio(levels, building)
        cash_reserves == GetOr(building, "cash_reserves", 0)
        profit_after_reserves == GetOr(building, "profit_after_reserves", 0)
    IN  IF cash_reserves > 0 THEN RatMul(cash_reserves, ownership_ratio)
        ELSE IF profit_after_reserves > 0
        THEN RatMul(profit_after_reserves * 52, ownership_ratio) * 10
        ELSE levels * 50000

\* effective_gdp_report: ownership_ratio = levels / building_levels if building_levels > 0 else 0
eff_ownership_ratio(levels, building) ==
    LET building_levels == GetOr(building, "levels", 1)
    IN  IF building_levels > 0
        THEN [num |-> levels, den |-> building_levels]
        ELSE [num |-> 0, den |-> 1]

\* effective_gdp_report: the three-branch estimate of the stake's value
eff_building_value(levels, building) ==
    LET ownership_ratio == eff_ownership_ratio(levels, building)
        cash_reserves == GetOr(building, "cash_reserves", 0)
        profit_after_reserves == GetOr(building, "profit_after_reserves", 0)
    IN  IF cash_reserves > 0 THEN RatMul(cash_reserves, ownership_ratio)
        ELSE IF profit_after_reserves > 0
        THEN RatMul(profit_after_reserves * 52, ownership_ratio) * 10
        ELSE levels * 50000

\* session_comparison: ownership_ratio = levels / building_levels if building_levels > 0 else 0
sc_ownership_ratio(levels, building) ==
    LET building_levels == GetOr(building, "levels", 1)
    IN  IF building_levels > 0
        THEN [num |-> levels, den |-> building_levels]
        ELSE [num |-> 0, den |-> 1]

\* session_comparison: the three-branch estimate of the stake's value
sc_building_value(levels, building) ==
    LET ownership_ratio == sc_ownership_ratio(levels, building)
        cash_reserves == GetOr(building, "cash_reserves", 0)
        profit_after_reserves == GetOr(building, "profit_after_reserves", 0)
    IN  IF cash_reserves > 0 THEN RatMul(cash_reserves, ownership_ratio)
        ELSE IF profit_after_reserves > 0
        THEN RatMul(profit_after_reserves * 52, ownership_ratio) * 10
        ELSE levels * 50000

-----------------------------------------------------------------------------
(* The ownership walks: one loop iteration of each script *)

\* the test asking in addition that both IDs are keys of the country table
tg_is_foreign_known(owner_country, target_country) ==
    /\ Truthy(owner_country) /\ Truthy(target_country)
    /\ owner_country # target_country
    /\ Str(owner_country) \in DOMAIN countries
    /\ Str(target_country) \in DOMAIN countries

\* the test without `owner_country != target_country`
tg_is_foreign_any(owner_country, target_country) ==
    Truthy(owner_country) /\ Truthy(target_country)

\* true_gdp_ownership: `if owner_country and target_country and owner_country != target_country`
tg_is_foreign(owner_country, target_country) ==
    Truthy(owner_country) /\ Truthy(target_country) /\ owner_country # target_country

\* super_simple_foreign_report: the same test
ss_is_foreign(owner_country, target_country) ==
    Truthy(owner_country) /\ Truthy(target_country) /\ owner_country # target_country

\* ownership_by_entity: the same test
obe_is_foreign(owner_country, target_country) ==
    Truthy(owner_country) /\ Truthy(target_country) /\ owner_country # target_country

\* true_gdp_ownership: the locals at the end of one iteration
tg_iteration(bs, own) ==
    LET t == resolve_target(bs, own)
    IN  IF t.skip THEN [skip |-> TRUE]
        ELSE LET owner_country == resolve_owner(bs, GetOr(own, "identity", EmptyDict))
             IN  [skip |-> FALSE, levels |-> t.levels, building |-> t.building,
                  target_country |-> t.target_country,
                  owner_country |-> owner_country,
                  ownership_ratio |-> tg_ownership_ratio(t.levels, t.building),
                  building_value |-> tg_building_value(t.levels, t.building),
                  foreign |-> tg_is_foreign(owner_country, t.target_country)]

\* super_simple_foreign_report: the locals at the end of one iteration
ss_iteration(bs, own) ==
    LET t == resolve_target(bs, own)
    IN  IF t.skip THEN [skip |-> TRUE]
        ELSE LET owner_country == resolve_owner(bs, GetOr(own, "identity", EmptyDict))
             IN  [skip |-> FALSE, levels |-> t.levels,
                  target_country |-> t.target_country,
                  owner_country |-> owner_country,
                  foreign |-> ss_is_foreign(owner_country, t.target_country)]

\* ownership_by_entity: the locals at the end of one iteration; of the key
\* [owner][target][entity_key][owned_building_type] the entity type is kept, the
\* display names built by format_building_type are not
obe_iteration(bs, own) ==
    LET t == resolve_target(bs, own)
    IN  IF t.skip THEN [skip |-> TRUE]
        ELSE LET identity == GetOr(own, "identity", EmptyDict)
                 owner_country == resolve_owner(bs, identity)
             IN  [skip |-> FALSE, levels |-> t.levels,
                  target_country |-> t.target_country,
                  owner_country |-> owner_country,
                  entity_type |-> obe_entity_type(bs, identity),
                  foreign |-> obe_is_foreign(owner_country, t.target_country)]

\* effective_gdp_report.calculate_foreign_ownership: one iteration; the record
\* is also dropped when the owner is not found, and domestic stakes are kept
eff_iteration(bs, own) ==
    LET t == eff_resolve_target(bs, own)
    IN  IF t.skip THEN [skip |-> TRUE]
        ELSE LET owner_country_id == resolve_owner(bs, GetOr(own, "identity", EmptyDict))
             IN  IF ~Truthy(owner_country_id) THEN [skip |-> TRUE]
                 ELSE [skip |-> FALSE, levels |-> t.levels, building |-> t.building,
                       target_country |-> t.target_country,
                       owner_country |-> owner_country_id,
                       ownership_ratio |-> eff_ownership_ratio(t.levels, t.building),
                       building_value |-> eff_building_value(t.levels, t.building)]

\* session_comparison.calculate_effective_gdp: one iteration of its ownership loop
sc_iteration(bs, own) ==
    LET t == eff_resolve_target(bs, own)
    IN  IF t.skip THEN [skip |-> TRUE]
        ELSE LET owner_country_id == resolve_owner(bs, GetOr(own, "identity", EmptyDict))
             IN  IF ~Truthy(owner_country_id) THEN [skip |-> TRUE]
                 ELSE [skip |-> FALSE, levels |-> t.levels, building |-> t.building,
                       target_country |-> t.target_country,
                       owner_country |-> owner_country_id,
                       ownership_ratio |-> sc_ownership_ratio(t.levels, t.building),
                       building_value |-> sc_building_value(t.levels, t.building)]

\* effective_gdp_report.calculate_effective_gdp: the value foreign-owned inside
\* country_id
foreign_owned_in_country(matrix, country_id) ==
    LET keys == {k \in DOMAIN matrix : k[1] # country_id /\ k[2] = country_id}
    IN  SumOver(keys, matrix)

\* effective_gdp_report.calculate_effective_gdp: the value country_id owns abroad
gdp_owned_abroad(matrix, country_id) ==
    LET keys == {k \in DOMAIN matrix : k[1] = country_id /\ k[2] # country_id}
    IN  SumOver(keys, matrix)

OwnInit ==
    /\ \E b \in OwnedBuildingInputs : buildings = ("100" :> b) @@ OwnerBuildings
    /\ ownership = EmptyDict
    /\ own_count = 0
    /\ loc = [tg |-> [skip |-> TRUE], ss |-> [skip |-> TRUE], obe |-> [skip |-> TRUE],
              eff |-> [skip |-> TRUE], sc |-> [skip |-> TRUE]]
    /\ foreign_investments = EmptyDict
    /\ levels_owned_abroad = EmptyDict
    /\ levels_foreign_owned_within = EmptyDict
    /\ investments_by_entity = EmptyDict
    /\ ownership_matrix = EmptyDict
    /\ sc_ownership_matrix = EmptyDict
    /\ SubjIdle
    /\ ClsIdle
    /\ ExtIdle

\* the next record of building_ownership_manager goes through the loop body of
\* every script
ProcessOwnership(own) ==
    /\ own_count < MaxRecords
    /\ own_count' = own_count + 1
    /\ ownership' = own
    /\ LET tg == tg_iteration(buildings, own)
           ss == ss_iteration(buildings, own)
           obe == obe_iteration(buildings, own)
           eff == eff_iteration(buildings, own)
           sc == sc_iteration(buildings, own)
       IN  /\ loc' = [tg |-> tg, ss |-> ss, obe |-> obe, eff |-> eff, sc |-> sc]
           /\ foreign_investments' =
                IF ~tg.skip /\ tg.foreign
                THEN Add(foreign_investments,
                         <<tg.owner_country[1], tg.target_country[1]>>, tg.building_value)
                ELSE foreign_investments
           /\ levels_owned_abroad' =
                IF ~ss.skip /\ ss.foreign
                THEN Add(levels_owned_abroad, ss.owner_country[1], ss.levels)
                ELSE levels_owned_abroad
           /\ levels_foreign_owned_within' =
                IF ~ss.skip /\ ss.foreign
                THEN Add(levels_foreign_owned_within, ss.target_country[1], ss.levels)
                ELSE levels_foreign_owned_within
           /\ investments_by_entity' =
                IF ~obe.skip /\ obe.foreign
                THEN Add(investments_by_entity,
                         <<obe.owner_country[1], obe.target_country[1], obe.entity_type>>,
                         obe.levels)
                ELSE investments_by_entity
           /\ ownership_matrix' =
                IF ~eff.skip
                THEN Add(ownership_matrix,
                         <<eff.owner_country[1], eff.target_country[1]>>, eff.building_value)
                ELSE ownership_matrix
           /\ sc_ownership_matrix' =
                IF ~sc.skip
                THEN Add(sc_ownership_matrix,
                         <<sc.owner_country[1], sc.target_country[1]>>, sc.building_value)
                ELSE sc_ownership_matrix
    /\ UNCHANGED <<buildings, subj_vars, cls_vars>>

OwnNext == \E own \in OwnershipInputs : ProcessOwnership(own) /\ UNCHANGED ext_vars

SpecOwnership == OwnInit /\ [][OwnNext]_vars

-----------------------------------------------------------------------------
(* The ownership walks: properties *)

\* a record has just gone through the loop body
Processed == own_count > 0

\* the country of the state the building with this ID stands in, None when the
\* building, its state or the state's country is not on record
CountryOfBuilding(id) ==
    LET b == Lookup(buildings, Str(id))
    IN  IF b = None THEN None
        ELSE LET st == Lookup(states, Str(Get(b[1], "state")))
             IN  IF st = None THEN None ELSE Get(st[1], "country")

\* the host country of a record: where the owned building stands
HostOf(own) == CountryOfBuilding(Get(own, "building"))

\* the owner country of a record: the identity's country, else where the
\* owning building stands
OwnerOf(own) ==
    IF "country" \in DOMAIN own.identity THEN Some(own.identity.country)
    ELSE IF "building" \in DOMAIN own.identity
    THEN CountryOfBuilding(Some(own.identity.building))
    ELSE None

\* the record's owner country and host country are both known and equal
Domestic(own) == OwnerOf(own) # None /\ OwnerOf(own) = HostOf(own)

\* C4: a record whose owner country equals its host country adds nothing to
\* foreign_investments, levels_owned_abroad, levels_foreign_owned_within or
\* investments_by_entity, and leaves foreign_owned_in_country and
\* gdp_owned_abroad of every country as they were, in both effective-GDP scripts.
C4_DomesticExclusion ==
    [][(own_count' = own_count + 1 /\ Domestic(ownership'))
       => /\ foreign_investments' = foreign_investments
          /\ levels_owned_abroad' = levels_owned_abroad
          /\ levels_foreign_owned_within' = levels_foreign_owned_within
          /\ investments_by_entity' = investments_by_entity
          /\ \A c \in CountryIds :
                /\ foreign_owned_in_country(ownership_matrix', c)
                     = foreign_owned_in_country(ownership_matrix, c)
                /\ gdp_owned_abroad(ownership_matrix', c)
                     = gdp_owned_abroad(ownership_matrix, c)
                /\ foreign_owned_in_country(sc_ownership_matrix', c)
                     = foreign_owned_in_country(sc_ownership_matrix, c)
                /\ gdp_owned_abroad(sc_ownership_matrix', c)
                     = gdp_owned_abroad(sc_ownership_matrix, c)]_vars

\* C4 witness: a domestic record with a positive value has been processed after
\* a foreign one: the matrix of effective_gdp_report holds the domestic stake
\* next to a foreign stake
C4_Witness ==
    /\ Processed
    /\ Domestic(ownership)
    /\ ~loc.eff.skip
    /\ loc.eff.building_value > 0
    /\ <<loc.eff.owner_country[1], loc.eff.owner_country[1]>> \in DOMAIN ownership_matrix
    /\ foreign_investments # EmptyDict

\* the step that records exactly the edge (o, h): value v in foreign_investments,
\* the record's levels under entity type e in investments_by_entity and in the
\* two level totals
RecordsOneEdge(o, h, e, v, levels) ==
    /\ foreign_investments' = Add(foreign_investments, <<o, h>>, v)
    /\ investments_by_entity' = Add(investments_by_entity, <<o, h, e>>, levels)
    /\ levels_owned_abroad' = Add(levels_owned_abroad, o, levels)
    /\ levels_foreign_owned_within' = Add(levels_foreign_owned_within, h, levels)

\* the record is the spec's direct-ownership scenario: 4 of the 10 levels of a
\* building holding 1000 cash
DirectScenario(own) ==
    /\ own.levels = 4
    /\ GetOr(buildings["100"], "levels", 1) = 10
    /\ GetOr(buildings["100"], "cash_reserves", 0) = 1000

\* a record with identity {country: X} (with or without a building key), levels > 0
\* and a target building whose host country is on record
DirectRecord(own) ==
    /\ "country" \in DOMAIN own.identity
    /\ own.levels > 0
    /\ HostOf(own) # None

\* C5 (as claimed): for a record with identity {country: X}, levels > 0 and a
\* resolvable target building: the owner is X, the host is the country of the
\* state of the target building, the entity type is "Direct Government", and
\* when X differs from the host exactly one edge (X, host) is recorded, worth
\* 400 in the scenario of 4 of 10 levels of a building with 1000 cash.
C5_DirectAttribution ==
    [][(own_count' = own_count + 1 /\ DirectRecord(ownership'))
       => LET own == ownership'
              x == own.identity.country
              host == HostOf(own)[1]
          IN  x # host =>
                /\ ~loc'.tg.skip /\ ~loc'.obe.skip
                /\ loc'.tg.owner_country = Some(x)
                /\ loc'.obe.owner_country = Some(x)
                /\ loc'.tg.target_country = Some(host)
                /\ loc'.obe.entity_type = "Direct Government"
                /\ RecordsOneEdge(x, host, "Direct Government",
                                  loc'.tg.building_value, own.levels)
                /\ DirectScenario(own) => loc'.tg.building_value = 400]_vars

\* The same holds when neither X nor the host is the ID 0.
DirectAttributionNonZero ==
    [][(own_count' = own_count + 1 /\ DirectRecord(ownership'))
       => LET own == ownership'
              x == own.identity.country
              host == HostOf(own)[1]
          IN  (x # host /\ x # 0 /\ host # 0) =>
                /\ ~loc'.tg.skip /\ ~loc'.obe.skip
                /\ loc'.tg.owner_country = Some(x)
                /\ loc'.obe.owner_country = Some(x)
                /\ loc'.tg.target_country = Some(host)
                /\ loc'.obe.entity_type = "Direct Government"
                /\ RecordsOneEdge(x, host, "Direct Government",
                                  loc'.tg.building_value, own.levels)
                /\ DirectScenario(own) => loc'.tg.building_value = 400]_vars

\* a record with identity {building: Y} only, levels > 0, a target building
\* whose host country is on record and an owning building Y whose country is
\* on record
IndirectRecord(own) ==
    /\ DOMAIN own.identity = {"building"}
    /\ own.levels > 0
    /\ HostOf(own) # None
    /\ CountryOfBuilding(Some(own.identity.building)) # None

\* the building-type tag of the owning building of an indirect record
OwnerTag(own) == buildings[Str(Some(own.identity.building))].building

\* C6 (as claimed): for a record with identity {building: Y} the owner is the
\* country of the state Y stands in, the entity type is the class of Y's tag,
\* and when that country A differs from the host B a foreign edge (A, B) is
\* recorded under that entity type: "Company" for a company HQ.
C6_IndirectAttribution ==
    [][(own_count' = own_count + 1 /\ IndirectRecord(ownership'))
       => LET own == ownership'
              a == CountryOfBuilding(Some(own.identity.building))[1]
              b == HostOf(own)[1]
              e == ClaimedClass(OwnerTag(own))
          IN  a # b =>
                /\ ~loc'.tg.skip /\ ~loc'.obe.skip
                /\ loc'.tg.owner_country = Some(a)
                /\ loc'.obe.owner_country = Some(a)
                /\ loc'.obe.entity_type = e
                /\ own.identity.building = 200 => e = "Company"
                /\ RecordsOneEdge(a, b, e, loc'.tg.building_value, own.levels)]_vars

\* The same holds when neither A nor B is the ID 0.
IndirectAttributionNonZero ==
    [][(own_count' = own_count + 1 /\ IndirectRecord(ownership'))
       => LET own == ownership'
              a == CountryOfBuilding(Some(own.identity.building))[1]
              b == HostOf(own)[1]
              e == ClaimedClass(OwnerTag(own))
          IN  (a # b /\ a # 0 /\ b # 0) =>
                /\ ~loc'.tg.skip /\ ~loc'.obe.skip
                /\ loc'.tg.owner_country = Some(a)
                /\ loc'.obe.owner_country = Some(a)
                /\ loc'.obe.entity_type = e
                /\ own.identity.building = 200 => e = "Company"
                /\ RecordsOneEdge(a, b, e, loc'.tg.building_value, own.levels)]_vars

\* two ratios are the same number
SameRatio(r, n, d) == r.num * d = n * r.den

\* the value the claimed three-branch rule gives for `levels` of building b at
\* ownership ratio r
ClaimedValue(levels, b, r) ==
    LET cash == GetOr(b, "cash_reserves", 0)
        profit == GetOr(b, "profit_after_reserves", 0)
    IN  IF cash > 0 THEN Quot(cash * r.num, r.den)
        ELSE IF profit > 0 THEN Quot(profit * 52 * r.num, r.den) * 10
        ELSE levels * 50000

\* the locals of one script's iteration carry the claimed value
ValueAsClaimed(l) ==
    ~l.skip =>
        /\ l.building_value = ClaimedValue(l.levels, l.building, l.ownership_ratio)
        /\ (GetOr(l.building, "cash_reserves", 0) = 0
            /\ GetOr(l.building, "profit_after_reserves", 0) = 0
            /\ l.levels = 3) => l.building_value = 150000

\* C7: in true_gdp_ownership, effective_gdp_report and session_comparison the
\* value of a record is cash_reserves * ownership_ratio when cash_reserves > 0
\* (also when there is profit), else profit_after_reserves * 52 *
\* ownership_ratio * 10 when profit_after_reserves > 0, else levels * 50000
\* without the ratio: 150000 for 3 levels of a building with no cash and no profit.
C7_ValueBranches ==
    Processed =>
        /\ ValueAsClaimed(loc.tg)
        /\ ValueAsClaimed(loc.eff)
        /\ ValueAsClaimed(loc.sc)

\* C7 witness: a stake in a building with both cash and profit has been valued
\* from the cash alone, 4 of 10 levels of 1000 cash giving 400 in all three scripts
C7_Witness ==
    /\ Processed
    /\ ~loc.tg.skip /\ ~loc.eff.skip /\ ~loc.sc.skip
    /\ GetOr(loc.tg.building, "cash_reserves", 0) = 1000
    /\ GetOr(loc.tg.building, "profit_after_reserves", 0) = 100
    /\ loc.tg.building_value = 400
    /\ loc.eff.building_value = 400
    /\ loc.sc.building_value = 400

\* C8 (as claimed): the ratio is levels / building_total_levels for a positive
\* total, and 0 whenever the total is 0 or missing from the building record.
C8_RatioZeroWhenMissing ==
    Processed =>
        \A l \in {loc.tg, loc.sc} :
            ~l.skip =>
                /\ l.ownership_ratio.den # 0
                /\ ("levels" \in DOMAIN l.building /\ l.building.levels > 0)
                     => SameRatio(l.ownership_ratio, l.levels, l.building.levels)
                /\ ("levels" \notin DOMAIN l.building \/ l.building.levels = 0)
                     => l.ownership_ratio.num = 0

\* C8 (amended): the ratio is levels / building_total_levels for a positive
\* total and 0 for a total that is 0 or negative; a total missing from the
\* building record counts as 1, so the ratio is then `levels`; the divisor is
\* never 0.
C8_RatioGuard ==
    Processed =>
        \A l \in {loc.tg, loc.sc} :
            ~l.skip =>
                /\ l.ownership_ratio.den # 0
                /\ ("levels" \in DOMAIN l.building /\ l.building.levels > 0)
                     => SameRatio(l.ownership_ratio, l.levels, l.building.levels)
                /\ ("levels" \in DOMAIN l.building /\ l.building.levels <= 0)
                     => l.ownership_ratio.num = 0
                /\ "levels" \notin DOMAIN l.building
                     => SameRatio(l.ownership_ratio, l.levels, 1)

\* C8 witness: a stake in a building without a level count has been given the
\* ratio levels / 1
C8_Witness ==
    /\ Processed
    /\ ~loc.tg.skip /\ ~loc.sc.skip
    /\ "levels" \notin DOMAIN loc.tg.building
    /\ loc.tg.ownership_ratio = [num |-> loc.tg.levels, den |-> 1]
    /\ loc.sc.ownership_ratio = [num |-> loc.sc.levels, den |-> 1]

\* C9: with non-negative levels, cash_reserves and profit_after_reserves, the
\* value of every record counted as foreign is >= 0, whatever the building's
\* level count, and so is every entry of foreign_investments.
C9_ValueNonNegative ==
    /\ \A k \in DOMAIN foreign_investments : foreign_investments[k] >= 0
    /\ (Processed /\ ~loc.tg.skip /\ loc.tg.foreign) => loc.tg.building_value >= 0

\* C9 witness: a foreign stake in a building with cash and a negative level
\* count has been added to foreign_investments
C9_Witness ==
    /\ Processed
    /\ ~loc.tg.skip /\ loc.tg.foreign
    /\ "levels" \in DOMAIN loc.tg.building /\ loc.tg.building.levels < 0
    /\ GetOr(loc.tg.building, "cash_reserves", 0) > 0
    /\ <<loc.tg.owner_country[1], loc.tg.target_country[1]>> \in DOMAIN foreign_investments

\* The quotients formed while valuing a record are integers for the inputs of
\* this model, so that Quot loses nothing.
QuotientsExact ==
    (Processed /\ ~loc.tg.skip) =>
        LET r == loc.tg.ownership_ratio
        IN  /\ (GetOr(loc.tg.building, "cash_reserves", 0) * r.num) % r.den = 0
            /\ (GetOr(loc.tg.building, "profit_after_reserves", 0) * 52 * r.num) % r.den = 0

-----------------------------------------------------------------------------
(* The ownership walks: rejected records *)

\* building 100 standing in country 2 or in country 1
RejectBuildingInputs ==
    [building : {tag_owned}, state : {50, 51}, levels : {10},
     cash_reserves : {0, 1000}, profit_after_reserves : {100}]

\* records that may also point at building 203, whose state 54 is not on
\* record, and at building 999, which is not on record
RejectOwnershipInputs ==
    [building : {100, 203, 999}, levels : {-1, 0, 3}, identity : IdentityInputs]

RejectInit ==
    /\ \E b \in RejectBuildingInputs : buildings = ("100" :> b) @@ OwnerBuildings
    /\ ownership = EmptyDict
    /\ own_count = 0
    /\ loc = [tg |-> [skip |-> TRUE], ss |-> [skip |-> TRUE], obe |-> [skip |-> TRUE],
              eff |-> [skip |-> TRUE], sc |-> [skip |-> TRUE]]
    /\ foreign_investments = EmptyDict
    /\ levels_owned_abroad = EmptyDict
    /\ levels_foreign_owned_within = EmptyDict
    /\ investments_by_entity = EmptyDict
    /\ ownership_matrix = EmptyDict
    /\ sc_ownership_matrix = EmptyDict
    /\ SubjIdle
    /\ ClsIdle
    /\ ExtIdle

RejectNext ==
    \E own \in RejectOwnershipInputs : ProcessOwnership(own) /\ UNCHANGED ext_vars

SpecReject == RejectInit /\ [][RejectNext]_vars

\* the target building of the record is not in the building table
TargetMissing(own) == Str(Get(own, "building")) \notin DOMAIN buildings

\* the target building is on record, the state it names is not
TargetStateMissing(own) ==
    /\ ~TargetMissing(own)
    /\ Str(Get(buildings[Str(Get(own, "building"))], "state")) \notin DOMAIN states

\* the identity names an owning building only, and that building or the state
\* it names is not on record
OwnerUnresolvable(own) ==
    /\ DOMAIN own.identity = {"building"}
    /\ LET id == Str(Some(own.identity.building))
       IN  \/ id \notin DOMAIN buildings
           \/ Str(Get(buildings[id], "state")) \notin DOMAIN states

\* the four cases in which a record is to be rejected
Rejected(own) ==
    \/ own.levels <= 0
    \/ TargetMissing(own)
    \/ TargetStateMissing(own)
    \/ OwnerUnresolvable(own)

\* no aggregate of any of the five walks changes in this step
AggregatesUnchanged ==
    /\ foreign_investments' = foreign_investments
    /\ levels_owned_abroad' = levels_owned_abroad
    /\ levels_foreign_owned_within' = levels_foreign_owned_within
    /\ investments_by_entity' = investments_by_entity
    /\ ownership_matrix' = ownership_matrix
    /\ sc_ownership_matrix' = sc_ownership_matrix

\* C11: a record with levels <= 0, with a target building that is not in the
\* building table, with a target building whose state is not in the state
\* table, or with a building identity whose record or state cannot be found
\* produces no edge and changes no aggregate; the loop has moved on by one
\* record and takes the next.
C11_RecordRejection ==
    [][(own_count' = own_count + 1 /\ Rejected(ownership'))
       => /\ AggregatesUnchanged
          /\ ~loc'.tg.skip => ~loc'.tg.foreign
          /\ ~loc'.ss.skip => ~loc'.ss.foreign]_vars

\* C11 witness: a record with positive levels and a resolvable owner, whose
\* target building names a missing state, has been rejected after an earlier
\* record was attributed
C11_Witness ==
    /\ own_count = 2
    /\ ownership.levels > 0
    /\ TargetStateMissing(ownership)
    /\ OwnerOf(ownership) # None
    /\ loc.tg.skip /\ loc.ss.skip
    /\ foreign_investments # EmptyDict

\* the other three cases of rejection, each after an attributed record
RejectedForLevels ==
    /\ own_count = 2 /\ ownership.levels <= 0
    /\ ~TargetMissing(ownership) /\ ~TargetStateMissing(ownership)
    /\ foreign_investments # EmptyDict

RejectedForTarget ==
    /\ own_count = 2 /\ ownership.levels > 0 /\ TargetMissing(ownership)
    /\ foreign_investments # EmptyDict

RejectedForOwner ==
    /\ own_count = 2 /\ ownership.levels > 0 /\ OwnerUnresolvable(ownership)
    /\ ~loc.tg.skip
    /\ foreign_investments # EmptyDict

-----------------------------------------------------------------------------
(* true_gdp_ownership: the country table and the totals of the report *)

\* get_country_tag: the definition when there is a non-empty one, else ID_<id>
get_country_tag(country_id) ==
    LET country == IF Str(Some(country_id)) \in DOMAIN countries
                   THEN countries[Str(Some(country_id))] ELSE EmptyDict
        definition == IF "definition" \in DOMAIN country THEN country.definition ELSE ""
    IN  IF definition # "" THEN definition ELSE "ID_" \o Str(Some(country_id))

\* print_true_gdp_analysis: sum(foreign_investments.get(country_id, {}).values())
total_invested_abroad(fi, country_id) ==
    SumOver({k \in DOMAIN fi : k[1] = country_id}, fi)

\* print_true_gdp_analysis: the sum of targets[country_id] over all investors
foreign_owned_within(fi, country_id) ==
    SumOver({k \in DOMAIN fi : k[2] = country_id}, fi)

\* the record resolves to an owner and a host, and one of the two IDs is not in
\* the country table
DanglingCountry(own) ==
    /\ own.levels > 0
    /\ OwnerOf(own) # None /\ HostOf(own) # None
    /\ \/ Str(OwnerOf(own)) \notin DOMAIN countries
       \/ Str(HostOf(own)) \notin DOMAIN countries

\* the foreign totals of the report are what they were
TotalsUnchanged ==
    \A c \in CountryIds :
        /\ total_invested_abroad(foreign_investments', c)
             = total_invested_abroad(foreign_investments, c)
        /\ foreign_owned_within(foreign_investments', c)
             = foreign_owned_within(foreign_investments, c)

-----------------------------------------------------------------------------
(* The ownership loop over entries of any JSON shape *)

\* the shapes a database entry can have: a key/value record, no entry, null, a
\* non-empty string such as "none", a number other than 0
EntryShapes == {"dict", "absent", "null", "str", "int"}

str_none == <<"n", "o", "n", "e">>

str_country == <<"c", "o", "u", "n", "t", "r", "y">>

str_building == <<"b", "u", "i", "l", "d", "i", "n", "g">>

\* ownership['levels']: no key, null, a string, a number
LevelsShapes ==
    {[t |-> "absent"], [t |-> "null"], [t |-> "str"]} \cup [t : {"int"}, v : {0, 3}]

\* ownership['identity']: no key, null, a number, an empty list, a string, a record
IdentityShapes ==
    {[t |-> "absent"], [t |-> "null"], [t |-> "int"], [t |-> "list"]}
    \cup [t : {"str"}, s : {str_none, str_country}]
    \cup [t : {"dict"}, d : {[country |-> 1], [building |-> 200], [building |-> 201]}]

\* an entry of building_ownership_manager: a string, or a record for building 100
EntryInputs ==
    {[t |-> "str"]}
    \cup [t : {"dict"}, building : {100}, levels : LevelsShapes, identity : IdentityShapes]

\* the record the loop body works on once every shape test has passed
Untag(e) ==
    [building |-> e.building,
     levels |-> IF e.levels.t = "int" THEN e.levels.v ELSE 0,
     identity |-> IF e.identity.t = "dict" THEN e.identity.d ELSE EmptyDict]

\* `'country' in identity` and what follows it, on an identity of any shape:
\* None and numbers do not support `in`, a string is searched for the
\* substring and cannot be indexed by a key
identity_outcome(identity) ==
    IF identity.t \in {"null", "int"} THEN "TypeError"
    ELSE IF identity.t = "str"
    THEN IF Contains(identity.s, str_country) \/ Contains(identity.s, str_building)
         THEN "TypeError"
         ELSE "ok"
    ELSE "ok"

\* true_gdp_ownership, one iteration on an entry of any shape: "continue",
\* "ok" when the body runs to its end, or the exception it raises
tg_shape_outcome(e, bshape, sshape, bs) ==
    IF e.t # "dict" THEN "continue"
    ELSE IF e.levels.t \in {"null", "str"} THEN "TypeError"
    ELSE IF ~(Untag(e).levels > 0) THEN "continue"
    ELSE IF bshape \in {"absent", "null"} THEN "continue"
    ELSE IF bshape # "dict" THEN "AttributeError"
    ELSE IF sshape \in {"absent", "null"} THEN "continue"
    ELSE IF sshape # "dict" THEN "AttributeError"
    ELSE IF resolve_target(bs, Untag(e)).skip THEN "continue"
    ELSE identity_outcome(e.identity)

\* effective_gdp_report, one iteration: `state_id not in states` lets a null
\* state through to `state.get`
eff_shape_outcome(e, bshape, sshape, bs) ==
    IF e.t # "dict" THEN "continue"
    ELSE IF e.levels.t \in {"null", "str"} THEN "TypeError"
    ELSE IF ~(Untag(e).levels > 0) THEN "continue"
    ELSE IF bshape \in {"absent", "null"} THEN "continue"
    ELSE IF bshape # "dict" THEN "AttributeError"
    ELSE IF sshape = "absent" THEN "continue"
    ELSE IF sshape # "dict" THEN "AttributeError"
    ELSE IF eff_resolve_target(bs, Untag(e)).skip THEN "continue"
    ELSE identity_outcome(e.identity)

Exceptions == {"TypeError", "AttributeError"}

ShapesInit ==
    /\ buildings = ("100" :> [building |-> tag_owned, state |-> 50, levels |-> 10,
                              cash_reserves |-> 1000, profit_after_reserves |-> 0])
                   @@ OwnerBuildings
    /\ ownership = EmptyDict
    /\ own_count = 0
    /\ loc = [tg |-> [skip |-> TRUE], ss |-> [skip |-> TRUE], obe |-> [skip |-> TRUE],
              eff |-> [skip |-> TRUE], sc |-> [skip |-> TRUE]]
    /\ foreign_investments = EmptyDict
    /\ levels_owned_abroad = EmptyDict
    /\ levels_foreign_owned_within = EmptyDict
    /\ investments_by_entity = EmptyDict
    /\ ownership_matrix = EmptyDict
    /\ sc_ownership_matrix = EmptyDict
    /\ entry = EmptyDict
    /\ building_shape \in EntryShapes
    /\ state_shape \in EntryShapes
    /\ raised = [tg |-> "", eff |-> ""]
    /\ SectionsIdle
    /\ RecordsIdle
    /\ TwiceIdle
    /\ ReportsIdle
    /\ SubjIdle
    /\ ClsIdle

\* the next entry of building_ownership_manager goes through the loop body:
\* the body runs to its end exactly when it does so in both scripts; an
\* exception ends the walk of the script that raised it
ProcessEntry(e) ==
    /\ raised = [tg |-> "", eff |-> ""]
    /\ own_count < MaxRecords
    /\ entry' = e
    /\ LET otg == tg_shape_outcome(e, building_shape, state_shape, buildings)
           oeff == eff_shape_outcome(e, building_shape, state_shape, buildings)
       IN  /\ raised' = [tg |-> IF otg \in Exceptions THEN otg ELSE "",
                         eff |-> IF oeff \in Exceptions THEN oeff ELSE ""]
           /\ IF otg = "ok" /\ oeff = "ok"
              THEN ProcessOwnership(Untag(e))
              ELSE IF otg \in Exceptions \/ oeff \in Exceptions
              THEN UNCHANGED <<own_vars, subj_vars, cls_vars>>
              ELSE /\ own_count' = own_count + 1
                   /\ loc' = [tg |-> [skip |-> TRUE], ss |-> [skip |-> TRUE],
                              obe |-> [skip |-> TRUE], eff |-> [skip |-> TRUE],
                              sc |-> [skip |-> TRUE]]
                   /\ UNCHANGED <<buildings, ownership, foreign_investments,
                                  levels_owned_abroad, levels_foreign_owned_within,
                                  investments_by_entity, ownership_matrix,
                                  sc_ownership_matrix, subj_vars, cls_vars>>
    /\ UNCHANGED <<building_shape, state_shape, save_data, ownership_data, twice_vars,
                   humans_vars, bloc_vars, walk_vars>>

ShapesNext == \E e \in EntryInputs : ProcessEntry(e)

SpecShapes == ShapesInit /\ [][ShapesNext]_vars

\* C13 (as claimed): whatever the shape of the ownership, building and state
\* entries, of levels and of the identity, each entry is skipped or attributed
\* and no walk ever ends in an exception.
C13_Totality == raised = [tg |-> "", eff |-> ""]

\* the levels, the identity and the two entries have the shapes the loop body
\* is written for; a null state counts for true_gdp_ownership only
WellShaped(script) ==
    /\ (entry # EmptyDict /\ entry.t = "dict") =>
         /\ entry.levels.t \in {"absent", "int"}
         /\ \/ entry.identity.t \in {"absent", "list", "dict"}
            \/ (entry.identity.t = "str" /\ entry.identity.s = str_none)
    /\ building_shape \in {"dict", "absent", "null"}
    /\ state_shape \in {"dict", "absent"} \cup (IF script = "tg" THEN {"null"} ELSE {})

\* On entries of those shapes neither walk raises.
TotalOnWellShaped ==
    /\ WellShaped("tg") => raised.tg = ""
    /\ WellShaped("eff") => raised.eff = ""

\* an entry was attributed after entries that were not records were skipped
ShapesAttributed ==
    /\ own_count = 2
    /\ entry # EmptyDict /\ entry.t = "dict" /\ entry.identity.t = "dict"
    /\ foreign_investments # EmptyDict
    /\ ownership_matrix # EmptyDict

-----------------------------------------------------------------------------
(* A document lacking sections: the resolver, then the ownership walks *)

\* the pact table of the document: 1 is overlord of 2, 2 of 3
SectionPacts ==
    <<[action |-> "puppet", targets |-> [first |-> 1, second |-> 2]],
      [action |-> "puppet", targets |-> [first |-> 2, second |-> 3]]>>

\* the building table of the document: building 100 stands in country 2
SectionBuildings ==
    ("100" :> [building |-> tag_owned, state |-> 50, levels |-> 10,
               cash_reserves |-> 1000, profit_after_reserves |-> 0])
    @@ OwnerBuildings

\* the ownership records of the document: stakes of country 1 in building 100,
\* held directly or through the company in building 200
SectionOwnershipInputs ==
    [building : {100}, levels : {0, 3}, identity : {[country |-> 1], [building |-> 200]}]

SectionsInit ==
    /\ save_data \in [Sections -> {"absent", "no_database", "database"}]
    /\ pacts = database("pacts", SectionPacts, <<>>)
    /\ pact_idx = 1
    /\ ds_keys = <<>>
    /\ direct_subjects = <<>>
    /\ all_subjects = <<>>
    /\ ov_idx = 1
    /\ stack = <<>>
    /\ visited = {}
    /\ expansions = [c \in CountryIds |-> 0]
    /\ pc = "run"
    /\ buildings = database("building_manager", SectionBuildings, EmptyDict)
    /\ ownership = EmptyDict
    /\ own_count = 0
    /\ loc = [tg |-> [skip |-> TRUE], ss |-> [skip |-> TRUE], obe |-> [skip |-> TRUE],
              eff |-> [skip |-> TRUE], sc |-> [skip |-> TRUE]]
    /\ foreign_investments = EmptyDict
    /\ levels_owned_abroad = EmptyDict
    /\ levels_foreign_owned_within = EmptyDict
    /\ investments_by_entity = EmptyDict
    /\ ownership_matrix = EmptyDict
    /\ sc_ownership_matrix = EmptyDict
    /\ ShapeIdle
    /\ RecordsIdle
    /\ TwiceIdle
    /\ ReportsIdle
    /\ ClsIdle

\* the ownership loop once the resolver has returned: it has records to go
\* through only if the document has the section and its database
SectionsOwnNext ==
    /\ pc = "done"
    /\ \E own \in database("building_ownership_manager", SectionOwnershipInputs, {}) :
          ProcessOwnership(own) /\ UNCHANGED ext_vars

SectionsNext == SubjNext \/ SectionsOwnNext

SpecSections == SectionsInit /\ [][SectionsNext]_vars

Lacking(section) == save_data[section] # "database"

\* no walk has recorded anything
NoAggregates ==
    /\ DOMAIN foreign_investments = {}
    /\ DOMAIN levels_owned_abroad = {}
    /\ DOMAIN levels_foreign_owned_within = {}
    /\ DOMAIN investments_by_entity = {}
    /\ DOMAIN ownership_matrix = {}
    /\ DOMAIN sc_ownership_matrix = {}

LackingPactsOnly ==
    /\ \A s \in Sections : Lacking(s) <=> s = "pacts"
    /\ pc = "done" /\ foreign_investments # EmptyDict

LackingBuildingsOnly ==
    /\ \A s \in Sections : Lacking(s) <=> s = "building_manager"
    /\ pc = "done" /\ own_count = MaxRecords /\ ownership.levels > 0

LackingOwnershipOnly ==
    /\ \A s \in Sections : Lacking(s) <=> s = "building_ownership_manager"
    /\ pc = "done"

LackingCountriesOnly ==
    /\ \A s \in Sections : Lacking(s) <=> s = "country_manager"
    /\ pc = "done" /\ foreign_investments # EmptyDict

\* with every section in place the same run fills the mappings
NothingLacking ==
    /\ \A s \in Sections : ~Lacking(s)
    /\ pc = "done" /\ DOMAIN all_subjects = {1, 2}
    /\ foreign_investments # EmptyDict

-----------------------------------------------------------------------------
(* true_gdp_ownership: the aggregate as a fold over the records *)

\* building 100 standing in country 2 or in the country whose ID is 0, with
\* or without cash
FoldBuildingInputs ==
    [building : {tag_owned}, state : {50, 52}, levels : {10},
     cash_reserves : {0, 1000}, profit_after_reserves : {100}]

FoldInit ==
    /\ \E b \in FoldBuildingInputs : buildings = ("100" :> b) @@ OwnerBuildings
    /\ ownership = EmptyDict
    /\ own_count = 0
    /\ loc = [tg |-> [skip |-> TRUE], ss |-> [skip |-> TRUE], obe |-> [skip |-> TRUE],
              eff |-> [skip |-> TRUE], sc |-> [skip |-> TRUE]]
    /\ foreign_investments = EmptyDict
    /\ levels_owned_abroad = EmptyDict
    /\ levels_foreign_owned_within = EmptyDict
    /\ investments_by_entity = EmptyDict
    /\ ownership_matrix = EmptyDict
    /\ sc_ownership_matrix = EmptyDict
    /\ ownership_data = <<>>
    /\ ShapeIdle
    /\ SectionsIdle
    /\ TwiceIdle
    /\ ReportsIdle
    /\ SubjIdle
    /\ ClsIdle

\* the loop takes the next record of ownership_data.items()
FoldNext ==
    \E own \in OwnershipInputs :
        /\ ProcessOwnership(own)
        /\ ownership_data' = Append(ownership_data, own)
        /\ UNCHANGED <<shape_vars, save_data, twice_vars, humans_vars, bloc_vars, walk_vars>>

SpecFold == FoldInit /\ [][FoldNext]_vars

\* the record resolves to an owner and a host that differ
ResolvesForeign(own) ==
    /\ own.levels > 0
    /\ OwnerOf(own) # None /\ HostOf(own) # None
    /\ OwnerOf(own) # HostOf(own)

\* the estimated value of the record's stake
EstimatedValue(own) ==
    tg_building_value(own.levels, buildings[Str(Get(own, "building"))])

\* the record resolves to an owner and a host that differ, neither being the ID 0
ResolvesForeignNonZero(own) ==
    /\ ResolvesForeign(own)
    /\ OwnerOf(own) # Some(0) /\ HostOf(own) # Some(0)

RECURSIVE FoldEdges(_, _)
\* the fold: the values of the records that resolve to a foreign pair, with
\* or without those naming the ID 0, summed per (owner, host) pair
FoldEdges(records, with_zero) ==
    IF records = <<>> THEN EmptyDict
    ELSE LET own == records[Len(records)]
             rest == FoldEdges(SubSeq(records, 1, Len(records) - 1), with_zero)
         IN  IF (with_zero /\ ResolvesForeign(own)) \/ ResolvesForeignNonZero(own)
             THEN Add(rest, <<OwnerOf(own)[1], HostOf(own)[1]>>, EstimatedValue(own))
             ELSE rest

\* C15 (as claimed): after any sequence of records, foreign_investments holds
\* for each (owner, host) pair the sum of the estimated values of exactly the
\* processed records that resolved to that pair with owner != host: values of
\* one pair are added, no edge is lost or overwritten.
C15_AggregationFold ==
    foreign_investments = FoldEdges(ownership_data, TRUE)

\* The aggregate is the fold over the records whose owner and host are both
\* different from 0.
FoldOverNonZero ==
    foreign_investments = FoldEdges(ownership_data, FALSE)

\* two records of one pair have been added up next to a record of another pair
FoldCollision ==
    /\ Len(ownership_data) = 2
    /\ ResolvesForeignNonZero(ownership_data[1])
    /\ ResolvesForeignNonZero(ownership_data[2])
    /\ OwnerOf(ownership_data[1]) = OwnerOf(ownership_data[2])
    /\ ownership_data[1].levels # ownership_data[2].levels
    /\ Cardinality(DOMAIN foreign_investments) = 1
    /\ \A k \in DOMAIN foreign_investments :
          foreign_investments[k] = EstimatedValue(ownership_data[1])
                                     + EstimatedValue(ownership_data[2])

-----------------------------------------------------------------------------
(* Subject resolver: which pacts add a relation *)

\* the pact names a recognized subject type and carries both targets
BothTargetsPresent(pact) ==
    /\ pact.action \in subject_types
    /\ pact_target(pact, "first") # None
    /\ pact_target(pact, "second") # None

\* this step of the first pass appended the relation first -> second of the pact
AddsRelation(pact) ==
    /\ pact_target(pact, "first") # None
    /\ pact_target(pact, "second") # None
    /\ LET o == pact_target(pact, "first")[1]
           s == pact_target(pact, "second")[1]
       IN  /\ o \in DOMAIN direct_subjects'
           /\ direct_subjects'[o] = direct_list(direct_subjects, o) \o <<s>>
           /\ \A c \in DOMAIN direct_subjects' \ {o} :
                 c \in DOMAIN direct_subjects /\ direct_subjects'[c] = direct_subjects[c]

\* C16 (as claimed): a pact adds the relation overlord -> subject if and only
\* if its action is one of the six subject types and both targets.first and
\* targets.second are present; any other pact leaves the relations as they are.
C16_SubjectTypeFilter ==
    [][pact_idx' = pact_idx + 1
       => LET pact == pacts[pact_idx]
          IN  IF BothTargetsPresent(pact)
              THEN AddsRelation(pact)
              ELSE direct_subjects' = direct_subjects]_vars

\* the pact names a recognized subject type and both targets are IDs other than 0
BothTargetsTruthy(pact) ==
    /\ pact.action \in subject_types
    /\ Truthy(pact_target(pact, "first"))
    /\ Truthy(pact_target(pact, "second"))

\* The filter as the first pass applies it: the targets must be present and
\* different from 0.
FilterOverNonZero ==
    [][pact_idx' = pact_idx + 1
       => LET pact == pacts[pact_idx]
          IN  IF BothTargetsTruthy(pact)
              THEN AddsRelation(pact)
              ELSE direct_subjects' = direct_subjects]_vars

\* the actions a pact can carry: the six subject types and four others
AllActions == subject_types \cup {"alliance", "trade_agreement", "rivalry", ""}

\* Each of the six subject types adds the relation and no other action does,
\* on an empty adjacency map.
FilterEveryAction ==
    \A a \in AllActions : \A f, s \in 1..2 :
        add_direct(<<>>, EmptyDict, [action |-> a, targets |-> [first |-> f, second |-> s]]).ds
          = IF a \in subject_types THEN (f :> <<s>>) ELSE EmptyDict

-----------------------------------------------------------------------------
(* Subject resolver: the output as sets *)

\* the returned mapping with every list read as a set
OutputSets == [o \in DOMAIN all_subjects |-> Range(all_subjects[o])]

\* the relations of a set of pact records: no order of the records enters
RelationsOf(records) ==
    {<<o, s>> \in CountryIds \X CountryIds :
        \E p \in records :
            /\ BothTargetsTruthy(p)
            /\ pact_target(p, "first") = Some(o)
            /\ pact_target(p, "second") = Some(s)}

\* overlord -> set of subjects, computed from the set of pact records alone
SetsOf(records) ==
    [o \in {r[1] : r \in RelationsOf(records)} |-> Reach(RelationsOf(records), o)]

\* C17: the set of overlords returned and the set of subjects of each are
\* determined by the set of pact records alone: every ordering of the same
\* records is a possible pact table, and each returns SetsOf of its records,
\* so two orderings differ at most in the order inside the lists.
C17_PactOrderIrrelevant ==
    pc = "done" => OutputSets = SetsOf(Range(pacts))

\* C17 witness: two different pacts of one overlord, processed in one of their
\* two orders; the list carries the subjects in that order
C17_Witness ==
    /\ pc = "done"
    /\ Len(pacts) = 2
    /\ BothTargetsTruthy(pacts[1]) /\ BothTargetsTruthy(pacts[2])
    /\ pacts[1].targets.first = pacts[2].targets.first
    /\ pacts[1].targets.second > pacts[2].targets.second
    /\ pacts[1].targets.first \notin {pacts[1].targets.second, pacts[2].targets.second}
    /\ all_subjects[pacts[1].targets.first]
         = <<pacts[1].targets.second, pacts[2].targets.second>>

-----------------------------------------------------------------------------
(* The resolver and the ownership walks run twice over one document *)

\* the pact records of the document: a cycle between 1 and 2, a subject 3 of
\* 2, and a pact that is no subject pact
TwicePactInputs ==
    {[action |-> "puppet", targets |-> [first |-> 1, second |-> 2]],
     [action |-> "puppet", targets |-> [first |-> 2, second |-> 1]],
     [action |-> "puppet", targets |-> [first |-> 2, second |-> 3]],
     [action |-> "alliance", targets |-> [first |-> 1, second |-> 2]]}

\* the ownership records of the document: stakes in building 100, which
\* stands in country 2, held by country 1, by country 2 and by a company of
\* country 1
TwiceOwnershipInputs ==
    [building : {100}, levels : {3},
     identity : {[country |-> 1], [country |-> 2], [building |-> 200]}]

\* foreign_investments kept from an earlier call
kept_accumulator(previous) == previous

\* `foreign_investments = defaultdict(...)`, `all_subjects = {}` and the like at
\* the head of each function: every call starts from empty accumulators
new_accumulator(previous) == EmptyDict

TwiceInit ==
    /\ \E n \in 0..MaxPacts : pacts \in [1..n -> TwicePactInputs]
    /\ pact_idx = 1
    /\ ds_keys = <<>>
    /\ direct_subjects = <<>>
    /\ all_subjects = <<>>
    /\ ov_idx = 1
    /\ stack = <<>>
    /\ visited = {}
    /\ expansions = [c \in CountryIds |-> 0]
    /\ pc = "run"
    /\ buildings = SectionBuildings
    /\ \E m \in 0..MaxRecords : ownership_data \in [1..m -> TwiceOwnershipInputs]
    /\ ownership = EmptyDict
    /\ own_count = 0
    /\ loc = [tg |-> [skip |-> TRUE], ss |-> [skip |-> TRUE], obe |-> [skip |-> TRUE],
              eff |-> [skip |-> TRUE], sc |-> [skip |-> TRUE]]
    /\ foreign_investments = EmptyDict
    /\ levels_owned_abroad = EmptyDict
    /\ levels_foreign_owned_within = EmptyDict
    /\ investments_by_entity = EmptyDict
    /\ ownership_matrix = EmptyDict
    /\ sc_ownership_matrix = EmptyDict
    /\ run = 1
    /\ first_output = EmptyDict
    /\ ShapeIdle
    /\ SectionsIdle
    /\ ReportsIdle
    /\ ClsIdle

\* the ownership loop, once the resolver has returned, over the records of
\* the document
TwiceOwn ==
    /\ pc = "done"
    /\ own_count < Len(ownership_data)
    /\ ProcessOwnership(ownership_data[own_count + 1])
    /\ UNCHANGED ext_vars

\* what the scripts return
Output ==
    [all_subjects |-> all_subjects,
     foreign_investments |-> foreign_investments,
     levels_owned_abroad |-> levels_owned_abroad,
     levels_foreign_owned_within |-> levels_foreign_owned_within,
     investments_by_entity |-> investments_by_entity,
     ownership_matrix |-> ownership_matrix,
     sc_ownership_matrix |-> sc_ownership_matrix]

\* both functions have returned
RunOver == pc = "done" /\ own_count = Len(ownership_data)

\* the second run: the same functions are called again on the document as the
\* first run left it
Rerun ==
    /\ RunOver
    /\ run = 1
    /\ run' = 2
    /\ first_output' = Output
    /\ pact_idx' = 1
    /\ ds_keys' = <<>>
    /\ direct_subjects' = new_accumulator(direct_subjects)
    /\ all_subjects' = new_accumulator(all_subjects)
    /\ ov_idx' = 1
    /\ stack' = <<>>
    /\ visited' = {}
    /\ expansions' = [c \in CountryIds |-> 0]
    /\ pc' = "run"
    /\ own_count' = 0
    /\ loc' = [tg |-> [skip |-> TRUE], ss |-> [skip |-> TRUE], obe |-> [skip |-> TRUE],
               eff |-> [skip |-> TRUE], sc |-> [skip |-> TRUE]]
    /\ foreign_investments' = new_accumulator(foreign_investments)
    /\ levels_owned_abroad' = new_accumulator(levels_owned_abroad)
    /\ levels_foreign_owned_within' = new_accumulator(levels_foreign_owned_within)
    /\ investments_by_entity' = new_accumulator(investments_by_entity)
    /\ ownership_matrix' = new_accumulator(ownership_matrix)
    /\ sc_ownership_matrix' = new_accumulator(sc_ownership_matrix)
    /\ UNCHANGED <<pacts, buildings, ownership, ownership_data, save_data,
                   shape_vars, cls_vars, humans_vars, bloc_vars, walk_vars>>

TwiceNext == SubjNext \/ TwiceOwn \/ Rerun

SpecTwice == TwiceInit /\ [][TwiceNext]_vars

\* the document: the pact, building, state and country tables and the
\* ownership records
Document == <<pacts, buildings, states, countries, ownership_data, save_data>>

\* C18: no step of either run changes the document, and when the second run
\* is over its output is identical to the output of the first.
C18_Idempotence ==
    [][/\ Document' = Document
       /\ (run' = 2 /\ RunOver') => Output' = first_output']_vars

\* C18 witness: the second run is over on a document with a subject chain or
\* cycle and two foreign stakes of one pair, and returned the first run's output
C18_Witness ==
    /\ run = 2
    /\ RunOver
    /\ first_output = Output
    /\ Len(pacts) = 2
    /\ \E o \in DOMAIN all_subjects : Len(all_subjects[o]) >= 2
    /\ own_count = 2
    /\ \E k \in DOMAIN foreign_investments : foreign_investments[k] = 600

-----------------------------------------------------------------------------
(* The human-country filter file *)

MaxLines == 2

whitespace == {" ", "\t", "\n"}

RECURSIVE lstrip(_)
\* the line without its leading whitespace
lstrip(line) ==
    IF line # <<>> /\ line[1] \in whitespace THEN lstrip(Tail(line)) ELSE line

RECURSIVE rstrip(_)
\* the line without its trailing whitespace
rstrip(line) ==
    IF line # <<>> /\ line[Len(line)] \in whitespace
    THEN rstrip(SubSeq(line, 1, Len(line) - 1))
    ELSE line

\* line.strip()
strip(line) == rstrip(lstrip(line))

\* line.startswith(c)
startswith(line, c) == line # <<>> /\ line[1] = c

\* the lines a filter file is made of: tags, blank lines, comments, with and
\* without whitespace around them; each ends with its newline
LineInputs ==
    {<<"G", "B", "R", "\n">>,
     <<" ", "F", "R", "A", " ", "\n">>,
     <<"\n">>,
     <<" ", "\t", "\n">>,
     <<"#", "G", "B", "R", "\n">>,
     <<"#", " ", "h", "u", "m", "a", "n", "s", "\n">>,
     <<" ", "#", "F", "R", "A", "\n">>,
     <<"#", "\n">>,
     <<"U", "#", "A", "\n">>,
     <<"G", "B", "R">>}

\* load_humans_list: the body of `for line in f`
load_humans_line(list, line) ==
    LET stripped == strip(line)
    IN  IF stripped # <<>> /\ ~startswith(stripped, "#")
        THEN Append(list, stripped)
        ELSE list

\* the ownership reports: {line.strip() for line in f if line.strip()}
human_countries_line(set, line) ==
    IF strip(line) # <<>> THEN set \cup {strip(line)} ELSE set

HumansInit ==
    /\ \E n \in 0..MaxLines : humans_file \in [1..n -> LineInputs]
    /\ line_idx = 1
    /\ humans = <<>>
    /\ human_countries = {}
    /\ ShapeIdle
    /\ SectionsIdle
    /\ RecordsIdle
    /\ TwiceIdle
    /\ BlocsIdle
    /\ WalksIdle
    /\ SubjIdle
    /\ OwnIdle
    /\ ClsIdle

\* the next line of the file, read by load_humans_list and by the set
\* comprehension of the ownership reports
ReadLine ==
    /\ line_idx <= Len(humans_file)
    /\ humans' = load_humans_line(humans, humans_file[line_idx])
    /\ human_countries' = human_countries_line(human_countries, humans_file[line_idx])
    /\ line_idx' = line_idx + 1
    /\ UNCHANGED <<humans_file, shape_vars, save_data, ownership_data, twice_vars,
                   bloc_vars, walk_vars, subj_vars, own_vars, cls_vars>>

HumansNext == ReadLine

SpecHumans == HumansInit /\ [][HumansNext]_vars

\* the lines read so far
LinesRead == {humans_file[i] : i \in 1..(line_idx - 1)}

\* the stripped lines that are neither blank nor comments
TagsOf(lines) ==
    {strip(l) : l \in {x \in lines : strip(x) # <<>> /\ ~startswith(strip(x), "#")}}

\* C19 (as claimed): in every script that loads the file, the tags loaded are
\* exactly the stripped non-blank lines that do not start with '#': neither a
\* blank line nor a comment line becomes a tag, in load_humans_list and in the
\* ownership reports alike.
C19_HumanFilterParsing ==
    /\ Range(humans) = TagsOf(LinesRead)
    /\ human_countries = TagsOf(LinesRead)

\* load_humans_list loads exactly those tags.
LoadHumansListExact == Range(humans) = TagsOf(LinesRead)

\* The ownership reports load every stripped non-blank line, comments included.
OwnershipReportsKeepComments ==
    human_countries = {strip(l) : l \in {x \in LinesRead : strip(x) # <<>>}}

\* a file of a tag line and a comment line has been read to its end
HumansFileRead ==
    /\ line_idx = 3
    /\ Range(humans) = {<<"G", "B", "R">>}
    /\ human_countries = {<<"G", "B", "R">>, <<"#", "F", "R", "A">>}

-----------------------------------------------------------------------------
(* The power-bloc reports: gdp_treemap_plotly and power_bloc_report *)

\* the countries of country_manager; items() yields them by ascending ID
BlocCountries == {1, 2, 3}

\* power_bloc_manager's database: two active blocs and one that is not
power_bloc_database ==
    (1 :> [status |-> "active", leader |-> 1])
    @@ (2 :> [status |-> "active", leader |-> 2])
    @@ (3 :> [status |-> "inactive", leader |-> 3])

\* the pacts of the document: a country held twice by the same overlord, a
\* country held by two overlords, a chain and a cycle all arise from them
BlocPactInputs ==
    {[action |-> "puppet", targets |-> [first |-> 1, second |-> 2]],
     [action |-> "puppet", targets |-> [first |-> 1, second |-> 3]],
     [action |-> "puppet", targets |-> [first |-> 2, second |-> 3]],
     [action |-> "puppet", targets |-> [first |-> 3, second |-> 2]]}

\* the orders in which the document lists its blocs
BlocOrders == {<<1>>, <<1, 2>>, <<2, 1>>, <<3, 1>>}

\* power_bloc_as_core of each country
CoreInputs == [BlocCountries -> {None, Some(1), Some(2)}]

\* the GDP of each country; country 3 may have none
GdpInputs == {(1 :> 4) @@ (2 :> 2) @@ (3 :> 1), (1 :> 4) @@ (2 :> 2) @@ (3 :> 0)}

RECURSIVE Ascending(_)
\* the elements of a finite set of integers, smallest first
Ascending(S) ==
    IF S = {} THEN <<>>
    ELSE LET m == CHOOSE x \in S : \A y \in S : x <= y
         IN  <<m>> \o Ascending(S \ {m})

RECURSIVE lex_le(_, _)
\* tuple comparison, as Python compares the keys of a sort
lex_le(a, b) ==
    IF a = <<>> THEN TRUE
    ELSE IF Head(a) # Head(b) THEN Head(a) < Head(b)
    ELSE lex_le(Tail(a), Tail(b))

RECURSIVE sort_order(_, _)
\* the positions S of a list in the order a stable sort by keys puts them
sort_order(keys, S) ==
    IF S = {} THEN <<>>
    ELSE LET m == CHOOSE i \in S :
                      \A j \in S : lex_le(keys[i] \o <<i>>, keys[j] \o <<j>>)
         IN  <<m>> \o sort_order(keys, S \ {m})

\* list.sort(key=...): keys[i] is the key of seq[i]
sorted(seq, keys) ==
    LET o == sort_order(keys, DOMAIN seq)
    IN  [i \in DOMAIN seq |-> seq[o[i]]]

\* False sorts before True
BoolKey(b) == IF b THEN 1 ELSE 0

RECURSIVE subject_pairs(_, _)
\* the (member, subject) pairs that `for member_id in direct_members` and
\* `for subject_id in subject_relationships[member_id]` go through; the set of
\* small integers is iterated by ascending ID
subject_pairs(members, rel) ==
    IF members = <<>> THEN <<>>
    ELSE LET m    == Head(members)
             list == direct_list(rel, m)
         IN  [i \in 1..Len(list) |-> [member |-> m, subject |-> list[i]]]
             \o subject_pairs(Tail(members), rel)

\* gdp_treemap_plotly: all_countries, the countries with some GDP
gt_all_countries ==
    [c \in {x \in BlocCountries : country_gdp[x] > 0} |->
        [gdp |-> country_gdp[c], power_bloc |-> None, is_subject |-> FALSE,
         overlord |-> None]]

\* gdp_treemap_plotly: the core members of the bloc that have some GDP
gt_direct_members(bloc) ==
    {c \in BlocCountries : core_of[c] = Some(bloc) /\ c \in DOMAIN all_countries}

\* gdp_treemap_plotly: the first potential_overlord of subject_relationships,
\* in insertion order, that lists the subject and has some GDP, else the member
immediate_overlord(member_id, subject_id, ac) ==
    LET hits == {i \in 1..Len(ds_keys) :
                    /\ ds_keys[i] \in DOMAIN all_subjects
                    /\ subject_id \in Range(all_subjects[ds_keys[i]])
                    /\ ds_keys[i] \in DOMAIN ac}
    IN  IF hits = {} THEN member_id
        ELSE ds_keys[CHOOSE i \in hits : \A j \in hits : i <= j]

\* gdp_treemap_plotly: the loop over the core members
gt_add_members(st, bloc) ==
    LET d == gt_direct_members(bloc)
    IN  [ac |-> [c \in DOMAIN st.ac |->
                    IF c \in d THEN [st.ac[c] EXCEPT !.power_bloc = Some(bloc)]
                    ELSE st.ac[c]],
         cib |-> st.cib \cup d,
         members |-> Ascending(d)]

RECURSIVE gt_add_subjects(_, _, _)
\* gdp_treemap_plotly: the loop over the subjects of the core members
gt_add_subjects(st, bloc, pairs) ==
    IF pairs = <<>> THEN st
    ELSE LET p == Head(pairs)
             s == p.subject
         IN  IF s \in DOMAIN st.ac /\ s \notin st.cib
             THEN gt_add_subjects(
                      [ac |-> [st.ac EXCEPT ![s] =
                                  [@ EXCEPT !.power_bloc = Some(bloc),
                                            !.is_subject = TRUE,
                                            !.overlord =
                                                Some(immediate_overlord(p.member, s, st.ac))]],
                       cib |-> st.cib \cup {s},
                       members |-> Append(st.members, s)],
                      bloc, Tail(pairs))
             ELSE gt_add_subjects(st, bloc, Tail(pairs))

\* gdp_treemap_plotly: one iteration of the loop over the blocs
gt_analyze_bloc(bloc) ==
    LET first == gt_add_members([ac |-> all_countries, cib |-> countries_in_blocs,
                                 members |-> <<>>], bloc)
    IN  gt_add_subjects(first, bloc,
                        subject_pairs(Ascending(gt_direct_members(bloc)), all_subjects))

RECURSIVE gdp_sum(_, _)
\* sum(c['gdp'] for c in all_bloc_members)
gdp_sum(members, gdp) ==
    IF members = <<>> THEN 0
    ELSE GetOr(gdp, Head(members), 0) + gdp_sum(Tail(members), gdp)

\* gdp_treemap_plotly: bloc_totals[bloc_name]
bloc_totals(bloc) ==
    [total_gdp |-> gdp_sum(bloc_members[bloc], country_gdp),
     total_count |-> Len(bloc_members[bloc])]

\* power_bloc_report: the core members of the bloc
pbr_direct_members(bloc) == {c \in BlocCountries : core_of[c] = Some(bloc)}

\* power_bloc_report: the record appended to members
pbr_member(c, bloc, overlord) ==
    [id |-> c,
     gdp |-> GetOr(country_gdp, c, 0),
     is_leader |-> overlord = None /\ c = power_bloc_database[bloc].leader,
     is_subject |-> overlord # None,
     overlord |-> overlord]

\* power_bloc_report: the first pass, over the core members
pbr_add_members(bloc) ==
    LET d == Ascending(pbr_direct_members(bloc))
    IN  [members |-> [i \in 1..Len(d) |-> pbr_member(d[i], bloc, None)],
         total_gdp |-> gdp_sum(d, country_gdp)]

RECURSIVE pbr_add_subjects(_, _, _)
\* power_bloc_report: the second pass, over the subjects of the core members
pbr_add_subjects(st, bloc, pairs) ==
    IF pairs = <<>> THEN st
    ELSE LET p == Head(pairs)
             s == p.subject
         IN  IF s \in pbr_direct_members(bloc)
             THEN pbr_add_subjects(st, bloc, Tail(pairs))
             ELSE pbr_add_subjects(
                      [members |-> Append(st.members, pbr_member(s, bloc, Some(p.member))),
                       total_gdp |-> st.total_gdp + GetOr(country_gdp, s, 0)],
                      bloc, Tail(pairs))

\* power_bloc_report: one iteration of the loop over the blocs, the record
\* appended to results; its resolver keeps the direct subjects only
pbr_analyze_bloc(bloc) ==
    LET st == pbr_add_subjects(pbr_add_members(bloc), bloc,
                  subject_pairs(Ascending(pbr_direct_members(bloc)), direct_subjects))
        members == sorted(st.members,
                       [i \in DOMAIN st.members |->
                           <<BoolKey(~st.members[i].is_leader),
                             BoolKey(st.members[i].is_subject),
                             -st.members[i].gdp>>])
    IN  [id |-> bloc, members |-> members, total_gdp |-> st.total_gdp,
         member_count |-> Len(members)]

BlocsInit ==
    /\ \E n \in 0..MaxPacts : pacts \in [1..n -> BlocPactInputs]
    /\ pact_idx = 1
    /\ ds_keys = <<>>
    /\ direct_subjects = <<>>
    /\ all_subjects = <<>>
    /\ ov_idx = 1
    /\ stack = <<>>
    /\ visited = {}
    /\ expansions = [c \in CountryIds |-> 0]
    /\ pc = "run"
    /\ power_blocs \in BlocOrders
    /\ core_of \in CoreInputs
    /\ country_gdp \in GdpInputs
    /\ bloc_idx = 0
    /\ all_countries = EmptyDict
    /\ countries_in_blocs = {}
    /\ bloc_members = EmptyDict
    /\ results = <<>>
    /\ OwnIdle
    /\ ClsIdle
    /\ ShapeIdle
    /\ SectionsIdle
    /\ RecordsIdle
    /\ TwiceIdle
    /\ HumansIdle
    /\ WalksIdle

\* gdp_treemap_plotly: the loop that fills all_countries, once the resolver
\* has returned
CollectCountries ==
    /\ pc = "done"
    /\ bloc_idx = 0
    /\ all_countries' = gt_all_countries
    /\ bloc_idx' = 1
    /\ UNCHANGED <<power_blocs, core_of, country_gdp, countries_in_blocs,
                   bloc_members, results>>
    /\ UNCHANGED <<subj_vars, own_vars, cls_vars, shape_vars, save_data,
                   ownership_data, twice_vars, humans_vars, walk_vars>>

\* one iteration of `for bloc_id, bloc in power_blocs.items()` in both reports
AnalyzeBloc ==
    /\ pc = "done"
    /\ bloc_idx \in 1..Len(power_blocs)
    /\ LET bloc == power_blocs[bloc_idx]
       IN  IF power_bloc_database[bloc].status # "active"
           THEN UNCHANGED <<all_countries, countries_in_blocs, bloc_members, results>>
           ELSE LET st == gt_analyze_bloc(bloc)
                IN  /\ all_countries' = st.ac
                    /\ countries_in_blocs' = st.cib
                    /\ bloc_members' = IF st.members # <<>>
                                       THEN (bloc :> st.members) @@ bloc_members
                                       ELSE bloc_members
                    /\ results' = Append(results, pbr_analyze_bloc(bloc))
    /\ bloc_idx' = bloc_idx + 1
    /\ UNCHANGED <<power_blocs, core_of, country_gdp>>
    /\ UNCHANGED <<subj_vars, own_vars, cls_vars, shape_vars, save_data,
                   ownership_data, twice_vars, humans_vars, walk_vars>>

\* the name of the group of the countries outside every bloc
Independent == 0

\* after the loop: gdp_treemap_plotly gathers the independent countries,
\* power_bloc_report sorts the blocs by total GDP
FinishBlocs ==
    /\ pc = "done"
    /\ bloc_idx = Len(power_blocs) + 1
    /\ LET independent == Ascending(DOMAIN all_countries \ countries_in_blocs)
       IN  bloc_members' = IF independent # <<>>
                           THEN (Independent :> independent) @@ bloc_members
                           ELSE bloc_members
    /\ results' = sorted(results, [i \in DOMAIN results |-> <<-results[i].total_gdp>>])
    /\ bloc_idx' = bloc_idx + 1
    /\ UNCHANGED <<power_blocs, core_of, country_gdp, all_countries, countries_in_blocs>>
    /\ UNCHANGED <<subj_vars, own_vars, cls_vars, shape_vars, save_data,
                   ownership_data, twice_vars, humans_vars, walk_vars>>

BlocsNext == SubjNext \/ CollectCountries \/ AnalyzeBloc \/ FinishBlocs

SpecBlocs == BlocsInit /\ [][BlocsNext]_vars

\* no country is twice in the list
NoDuplicates(ids) == \A i, j \in DOMAIN ids : ids[i] = ids[j] => i = j

\* the GDP of the countries of the list, each counted once
GdpOnce(ids) == SumOver(Range(ids), country_gdp)

\* the country IDs of a list of member records
IdsOf(members) == [i \in DOMAIN members |-> members[i].id]

\* gdp_treemap_plotly lists and counts every country of a bloc once
GdpTreemapCountsOnce ==
    \A b \in DOMAIN bloc_members :
        /\ NoDuplicates(bloc_members[b])
        /\ bloc_totals(b).total_gdp = GdpOnce(bloc_members[b])
        /\ bloc_totals(b).total_count = Cardinality(Range(bloc_members[b]))

\* power_bloc_report lists and counts every country of a bloc once
PowerBlocReportCountsOnce ==
    \A i \in DOMAIN results :
        /\ NoDuplicates(IdsOf(results[i].members))
        /\ results[i].total_gdp = GdpOnce(IdsOf(results[i].members))
        /\ results[i].member_count = Cardinality(Range(IdsOf(results[i].members)))

\* C20 (as claimed): when a country is listed more than once in the subject
\* mapping, every bloc report adds it to a bloc's member list at most once and
\* adds its GDP to the bloc total at most once.
C20_NoDoubleCounting == GdpTreemapCountsOnce /\ PowerBlocReportCountsOnce

\* some member of the bloc lists the country twice, or two members list it
ListedTwice(rel, members, c) ==
    Cardinality({i \in DOMAIN subject_pairs(Ascending(members), rel) :
                    subject_pairs(Ascending(members), rel)[i].subject = c}) > 1

\* gdp_treemap_plotly has placed, once, a country its mapping lists twice
TreemapPlacedOnce ==
    /\ bloc_idx = Len(power_blocs) + 2
    /\ \E b \in DOMAIN bloc_members \ {Independent} : \E c \in BlocCountries :
        /\ ListedTwice(all_subjects, gt_direct_members(b), c)
        /\ c \in Range(bloc_members[b])
        /\ c \notin gt_direct_members(b)

\* power_bloc_report has listed twice a country its mapping lists twice
ReportListedTwice ==
    /\ bloc_idx = Len(power_blocs) + 2
    /\ \E i \in DOMAIN results : \E c \in BlocCountries :
        /\ ListedTwice(direct_subjects, pbr_direct_members(results[i].id), c)
        /\ ~NoDuplicates(IdsOf(results[i].members))

-----------------------------------------------------------------------------
(* The ownership walks: the owning entity *)

\* the tags of the owning building: empty, no substring of the four, and one
\* for each class, in lower, upper and mixed case
EntityTagInputs ==
    {<<>>,
     tag_owned,
     chunk_building \o pat_company \o chunk_hq,
     chunk_building \o chunk_Financial_District,
     chunk_building \o chunk_regional \o chunk_COMPANY,
     chunk_Manor_House}

\* building 200, the owning building: it stands in country 1 or in country 2,
\* with any of the tags or with no `building` key
EntityOwnerInputs ==
    [building : EntityTagInputs, state : {50, 51}, levels : {1}]
    \cup [state : {50, 51}, levels : {1}]

\* building 100, the owned building, stands in country 2
EntityOwnedBuilding ==
    [building |-> tag_owned, state |-> 50, levels |-> 10,
     cash_reserves |-> 1000, profit_after_reserves |-> 100]

\* the records: an identity naming a country, a building, or both; building
\* 999 is not on record
EntityOwnershipInputs ==
    [building : {100}, levels : {3},
     identity : [country : {1, 2}] \cup [building : {200, 999}]
                \cup [country : {1}, building : {200, 999}]]

EntityInit ==
    /\ \E ob \in EntityOwnerInputs :
          buildings = ("100" :> EntityOwnedBuilding) @@ ("200" :> ob)
    /\ ownership = EmptyDict
    /\ own_count = 0
    /\ loc = [tg |-> [skip |-> TRUE], ss |-> [skip |-> TRUE], obe |-> [skip |-> TRUE],
              eff |-> [skip |-> TRUE], sc |-> [skip |-> TRUE]]
    /\ foreign_investments = EmptyDict
    /\ levels_owned_abroad = EmptyDict
    /\ levels_foreign_owned_within = EmptyDict
    /\ investments_by_entity = EmptyDict
    /\ ownership_matrix = EmptyDict
    /\ sc_ownership_matrix = EmptyDict
    /\ SubjIdle
    /\ ClsIdle
    /\ ExtIdle

EntityNext ==
    \E own \in EntityOwnershipInputs : ProcessOwnership(own) /\ UNCHANGED ext_vars

SpecEntity == EntityInit /\ [][EntityNext]_vars

\* the six entity types of the classification
EntityTypes == {"Direct Government", "Financial District", "Manor House",
                "Regional Company HQ", "Company", "Other Building"}

\* the record just processed was counted as foreign by ownership_by_entity
CountedForeign == Processed /\ ~loc.obe.skip /\ loc.obe.foreign

\* the record names an owning building only, and that building's tag is empty
EmptyOwnerTag ==
    /\ DOMAIN ownership.identity = {"building"}
    /\ Str(Some(ownership.identity.building)) \in DOMAIN buildings
    /\ Get(buildings[Str(Some(ownership.identity.building))], "building") = Some(<<>>)

\* C21 (as claimed): for every record counted as foreign by
\* analyze_ownership_by_entity the entity type is one of the six types, for
\* any tag of the owning building, an empty or missing one included.
C21_EntityTypeRange ==
    /\ CountedForeign => loc.obe.entity_type \in EntityTypes
    /\ \A k \in DOMAIN investments_by_entity : k[3] \in EntityTypes

\* C21 (amended): the entity type of a record counted as foreign is one of the
\* six types or "Unknown"; it is "Unknown" exactly when the owning building
\* carries an empty tag, and "Other Building" when it carries no tag at all.
C21_EntityTypeRangeOrUnknown ==
    /\ CountedForeign =>
          /\ loc.obe.entity_type \in EntityTypes \cup {"Unknown"}
          /\ loc.obe.entity_type = "Unknown" <=> EmptyOwnerTag
          /\ (/\ DOMAIN ownership.identity = {"building"}
              /\ "building" \notin DOMAIN buildings[Str(Some(ownership.identity.building))])
             => loc.obe.entity_type = "Other Building"
    /\ \A k \in DOMAIN investments_by_entity : k[3] \in EntityTypes \cup {"Unknown"}

\* C21 witness: a stake held through a building without a tag has been counted
\* as foreign, after a stake held through the same building was counted
C21_Witness ==
    /\ own_count = 2
    /\ CountedForeign
    /\ DOMAIN ownership.identity = {"building"}
    /\ "building" \notin DOMAIN buildings["200"]
    /\ loc.obe.entity_type = "Other Building"

\* a stake held through a building with an empty tag has been counted as foreign
EmptyTagCounted == CountedForeign /\ EmptyOwnerTag /\ loc.obe.entity_type = "Unknown"

\* every one of the six types has been recorded
EachTypeRecorded(t) == \E k \in DOMAIN investments_by_entity : k[3] = t

CompanyRecorded == EachTypeRecorded("Company")

RegionalRecorded == EachTypeRecorded("Regional Company HQ")

FinancialRecorded == EachTypeRecorded("Financial District")

ManorRecorded == EachTypeRecorded("Manor House")

-----------------------------------------------------------------------------
(* The power-bloc reports: the overlord of a subject *)

\* the countries gdp_treemap_plotly has placed in a bloc as subjects
PlacedSubjects == {c \in DOMAIN all_countries : all_countries[c].is_subject}

\* C22 (as claimed): when the GDP treemap adds a subject to a bloc, the overlord
\* recorded for it is a country that has a direct subject pact over it, also in
\* a chain A -> B -> C where the bloc member is A and the subject is C.
C22_ImmediateOverlord ==
    \A c \in PlacedSubjects :
        /\ all_countries[c].overlord # None
        /\ <<all_countries[c].overlord[1], c>> \in DirectPairs

\* The overlord recorded is a country with some GDP whose list of all subjects,
\* direct and indirect, holds the subject.
OverlordListsSubject ==
    \A c \in PlacedSubjects :
        /\ all_countries[c].overlord # None
        /\ LET o == all_countries[c].overlord[1]
           IN  /\ o \in DOMAIN all_countries
               /\ o \in DOMAIN all_subjects
               /\ c \in Range(all_subjects[o])

\* in the chain 1 -> 2 -> 3 with country 1 the only core member, country 3 has
\* been placed with country 1 recorded as its overlord
ChainOverlordIsMember ==
    /\ pacts = <<[action |-> "puppet", targets |-> [first |-> 1, second |-> 2]],
                 [action |-> "puppet", targets |-> [first |-> 2, second |-> 3]]>>
    /\ 3 \in PlacedSubjects
    /\ all_countries[3].overlord = Some(1)
    /\ 2 \in PlacedSubjects

-----------------------------------------------------------------------------
(* Subject resolver: soundness of the closure *)

\* the pairs of the valid subject pacts: a pact of a recognized subject type
\* that passes the test `if overlord and subject`
ValidPairs ==
    {<<o, s>> \in CountryIds \X CountryIds :
        \E i \in 1..Len(pacts) :
            /\ pacts[i].action \in subject_types
            /\ pact_target(pacts[i], "first") = Some(o)
            /\ pact_target(pacts[i], "second") = Some(s)
            /\ Truthy(Some(o)) /\ Truthy(Some(s))}

\* the overlords of a set of pairs
OverlordsOf(R) == {p[1] : p \in R}

\* C23: every country in the list returned for overlord O is reachable from O
\* by a chain of one or more recognized subject pacts, so no unrelated country
\* and no country reachable only through a non-subject pact is listed; the
\* output keys are exactly the countries that are overlord in at least one
\* valid subject pact, each with a non-empty list.
C23_ClosureSoundness ==
    pc = "done" =>
        /\ \A o \in DOMAIN all_subjects :
              /\ Range(all_subjects[o]) \subseteq Reach(RecognizedPairs, o)
              /\ Range(all_subjects[o]) \subseteq Reach(ValidPairs, o)
              /\ all_subjects[o] # <<>>
        /\ DOMAIN all_subjects = OverlordsOf(ValidPairs)

\* C23 witness: a pact of no subject type leads on from the subject of a
\* subject pact, and only that subject has been listed
C23_Witness ==
    /\ pc = "done"
    /\ Len(pacts) = 2
    /\ pacts[1].action = "puppet" /\ pacts[2].action = "alliance"
    /\ pact_target(pacts[1], "first") = Some(1)
    /\ pact_target(pacts[1], "second") = Some(2)
    /\ pact_target(pacts[2], "first") = Some(2)
    /\ pact_target(pacts[2], "second") = Some(3)
    /\ all_subjects = (1 :> <<2>>)

\* The keys are not the overlords of every recognized pair: the country with
\* ID 0 is the overlord of a subject pact and no key.
ZeroOverlordNoKey ==
    /\ pc = "done"
    /\ 0 \in OverlordsOf(RecognizedPairs)
    /\ 0 \notin DOMAIN all_subjects

\* a chain of two subject pacts has been followed
ChainFollowed ==
    /\ pc = "done"
    /\ 1 \in DOMAIN all_subjects
    /\ <<1, 3>> \notin RecognizedPairs
    /\ 3 \in Range(all_subjects[1])

-----------------------------------------------------------------------------
(* detailed_foreign_buildings and foreign_ownership_report *)

\* str.replace(old, new): every occurrence, left to right, without overlap
RECURSIVE replace(_, _, _)
replace(str, old, new) ==
    IF Len(str) < Len(old) THEN str
    ELSE IF SubSeq(str, 1, Len(old)) = old
    THEN new \o replace(SubSeq(str, Len(old) + 1, Len(str)), old, new)
    ELSE <<Head(str)>> \o replace(Tail(str), old, new)

\* a cased character
IsLetter(c) == c \in Range(UpperLetters) \cup Range(LowerLetters)

\* str.title(): a letter after a character that is no letter is put in upper
\* case, every other letter in lower case
title(str) ==
    [i \in 1..Len(str) |->
        IF i = 1 \/ ~IsLetter(str[i - 1]) THEN UpperChar(str[i]) ELSE LowerChar(str[i])]

\* the replacements of format_building_type, in the order of the dict
replacements ==
    <<<<<<"C", "o", "m", "p", "a", "n", "y", " ", "B", "a", "s", "i", "c">>,
        <<"C", "o", "m", "p", "a", "n", "y", " ", "-">>>>,
      <<<<"C", "o", "m", "p", "a", "n", "y", " ", "U", "s", " ", "S", "t", "e", "e", "l">>,
        <<"U", "S", " ", "S", "t", "e", "e", "l", " ", "C", "o", "m", "p", "a", "n", "y">>>>,
      <<<<"C", "o", "m", "p", "a", "n", "y", " ", "L", "e", "e", " ", "W", "i", "l", "s", "o", "n">>,
        <<"L", "e", "e", " ", "W", "i", "l", "s", "o", "n", " ", "C", "o", "m", "p", "a", "n", "y">>>>,
      <<<<"C", "o", "m", "p", "a", "n", "y", " ", "P", "a", "n", "a", "m", "a", " ", "C", "o", "m", "p", "a", "n", "y">>,
        <<"P", "a", "n", "a", "m", "a", " ", "C", "o", "m", "p", "a", "n", "y">>>>,
      <<<<"C", "o", "m", "p", "a", "n", "y", " ", "S", "u", "e", "z", " ", "C", "o", "m", "p", "a", "n", "y">>,
        <<"S", "u", "e", "z", " ", "C", "o", "m", "p", "a", "n", "y">>>>,
      <<<<"C", "o", "m", "p", "a", "n", "y", " ", "B", "o", "l", "c", "k", "o", "w", " ", "V", "a", "u", "g", "h", "a", "n">>,
        <<"B", "o", "l", "c", "k", "o", "w", " ", "V", "a", "u", "g", "h", "a", "n", " ", "C", "o", "m", "p", "a", "n", "y">>>>,
      <<<<"R", "e", "g", "i", "o", "n", "a", "l", " ", "C", "o", "m", "p", "a", "n", "y">>,
        <<"R", "e", "g", "i", "o", "n", "a", "l", " ", "C", "o", "m", "p", "a", "n", "y", " ", "-">>>>,
      <<<<"G", "o", "l", "d", " ", "F", "i", "e", "l", "d", "s">>,
        <<"G", "o", "l", "d", " ", "M", "i", "n", "i", "n", "g">>>>,
      <<<<"U", "r", "b", "a", "n", " ", "C", "e", "n", "t", "e", "r">>,
        <<"U", "r", "b", "a", "n", " ", "C", "e", "n", "t", "e", "r">>>>,
      <<<<"T", "r", "a", "d", "e", " ", "C", "e", "n", "t", "e", "r">>,
        <<"T", "r", "a", "d", "e", " ", "C", "e", "n", "t", "e", "r">>>>,
      <<<<"F", "i", "n", "a", "n", "c", "i", "a", "l", " ", "D", "i", "s", "t", "r", "i", "c", "t">>,
        <<"F", "i", "n", "a", "n", "c", "i", "a", "l", " ", "D", "i", "s", "t", "r", "i", "c", "t">>>>,
      <<<<"M", "a", "n", "o", "r", " ", "H", "o", "u", "s", "e">>,
        <<"M", "a", "n", "o", "r", " ", "H", "o", "u", "s", "e">>>>>>

RECURSIVE apply_replacements(_, _)
\* `for old, new in replacements.items(): clean = clean.replace(old, new)`
apply_replacements(clean, reps) ==
    IF reps = <<>> THEN clean
    ELSE apply_replacements(replace(clean, Head(reps)[1], Head(reps)[2]), Tail(reps))

str_Unknown == <<"U", "n", "k", "n", "o", "w", "n">>

\* format_building_type(building_type)
format_building_type(tag) ==
    IF tag = <<>> THEN str_Unknown
    ELSE apply_replacements(
             title(replace(replace(tag, chunk_building, <<>>), <<"_">>, <<" ">>)),
             replacements)

\* detailed_foreign_buildings: `if owner_country and target_country and owner_country != target_country`
\* without its last test
dfb_is_foreign_any(owner_country, target_country) ==
    Truthy(owner_country) /\ Truthy(target_country)

\* detailed_foreign_buildings: `if owner_country and target_country and owner_country != target_country`
dfb_is_foreign(owner_country, target_country) ==
    Truthy(owner_country) /\ Truthy(target_country) /\ owner_country # target_country

\* detailed_foreign_buildings: the locals at the end of one iteration; the head
\* of the loop body is the text of the other level-based walks
dfb_iteration(bs, own) ==
    LET t == resolve_target(bs, own)
    IN  IF t.skip THEN [skip |-> TRUE]
        ELSE LET owner_country == resolve_owner(bs, GetOr(own, "identity", EmptyDict))
                 owned_type == GetOr(t.building, "building", str_unknown)
             IN  [skip |-> FALSE, levels |-> t.levels,
                  target_country |-> t.target_country,
                  owner_country |-> owner_country,
                  formatted_building_type |-> format_building_type(owned_type),
                  foreign |-> dfb_is_foreign(owner_country, t.target_country)]

\* the owner found as the other walks find it, through the owning building too
report_owner_country_resolved(bs, owner_identity) == resolve_owner(bs, owner_identity)

\* foreign_ownership_report: owner_identity.get('country')
report_owner_country(bs, owner_identity) == Get(owner_identity, "country")

\* foreign_ownership_report: ownership_ratio = levels / building_levels if building_levels > 0 else 0
report_ownership_ratio(levels, building) ==
    LET building_levels == GetOr(building, "levels", 1)
    IN  IF building_levels > 0
        THEN [num |-> levels, den |-> building_levels]
        ELSE [num |-> 0, den |-> 1]

\* foreign_ownership_report: the annual dividends over a yield of 0.12, else
\* the cash share plus 100000 per level
report_building_value(levels, building) ==
    LET ownership_ratio == report_ownership_ratio(levels, building)
        profit_after_reserves == GetOr(building, "profit_after_reserves", 0)
        cash_reserves == GetOr(building, "cash_reserves", 0)
    IN  IF profit_after_reserves > 0
        THEN Quot(profit_after_reserves * ownership_ratio.num * 52 * 100,
                  ownership_ratio.den * 12)
        ELSE (IF cash_reserves > 0 THEN RatMul(cash_reserves, ownership_ratio) ELSE 0)
             + levels * 100000

\* foreign_ownership_report.calculate_foreign_ownership: one iteration
report_iteration(bs, own) ==
    LET building_id == Get(own, "building")
        owner_country == report_owner_country(bs, GetOr(own, "identity", EmptyDict))
        levels == GetOr(own, "levels", 0)
    IN  IF ~(Truthy(building_id) /\ Truthy(owner_country) /\ levels > 0)
        THEN [skip |-> TRUE]
        ELSE LET building == Lookup(bs, Str(building_id))
             IN  IF building = None \/ DOMAIN building[1] = {} THEN [skip |-> TRUE]
                 ELSE LET state_id == Get(building[1], "state")
                      IN  IF ~Truthy(state_id) THEN [skip |-> TRUE]
                          ELSE LET state == Lookup(states, Str(state_id))
                               IN  IF state = None \/ DOMAIN state[1] = {}
                                   THEN [skip |-> TRUE]
                                   ELSE LET state_owner == Get(state[1], "country")
                                        IN  IF ~Truthy(state_owner) THEN [skip |-> TRUE]
                                            ELSE [skip |-> FALSE,
                                                  owner_country |-> owner_country,
                                                  state_owner |-> state_owner,
                                                  annual_value |->
                                                      report_building_value(levels, building[1])]

\* STEEL_MILLS: another spelling of a tag that is displayed "Steel Mills"
tag_owned_upper == Upper(chunk_steel_mills)

\* the document of the walks: buildings 100 and 101 are steel mills, 100 in
\* country 2, 101 in country 2 or 1; building 200 is a company HQ in country 1,
\* building 201 a financial district in country 2
WalkBuildingInputs ==
    {("100" :> [building |-> tag_owned, state |-> 50, levels |-> 10,
                cash_reserves |-> 1000, profit_after_reserves |-> p])
     @@ ("101" :> [building |-> tag_owned_upper, state |-> s, levels |-> 10,
                   cash_reserves |-> 0, profit_after_reserves |-> 0])
     @@ ("200" :> [building |-> chunk_building \o pat_company \o chunk_hq,
                   state |-> 51, levels |-> 1])
     @@ ("201" :> [building |-> chunk_building \o pat_financial_district,
                   state |-> 50, levels |-> 1]) :
        p \in {0, 300}, s \in {50, 51}}

\* the records: stakes in the two mills, held by a country (the ID 0
\* included), through a building, or with both keys
WalkOwnershipInputs ==
    [building : {100, 101}, levels : {3, 4},
     identity : [country : {0, 1, 2}] \cup [building : {200, 201}]
                \cup [country : {1}, building : {201}]]

WalksInit ==
    /\ buildings \in WalkBuildingInputs
    /\ ownership = EmptyDict
    /\ own_count = 0
    /\ loc = [tg |-> [skip |-> TRUE], ss |-> [skip |-> TRUE], obe |-> [skip |-> TRUE],
              eff |-> [skip |-> TRUE], sc |-> [skip |-> TRUE]]
    /\ foreign_investments = EmptyDict
    /\ levels_owned_abroad = EmptyDict
    /\ levels_foreign_owned_within = EmptyDict
    /\ investments_by_entity = EmptyDict
    /\ ownership_matrix = EmptyDict
    /\ sc_ownership_matrix = EmptyDict
    /\ ownership_data = <<>>
    /\ WalksIdle
    /\ ShapeIdle
    /\ SectionsIdle
    /\ TwiceIdle
    /\ HumansIdle
    /\ BlocsIdle
    /\ SubjIdle
    /\ ClsIdle

\* the next record of ownership_data.items() goes through the loop body of
\* every ownership report
ProcessWalks(own) ==
    /\ ProcessOwnership(own)
    /\ ownership_data' = Append(ownership_data, own)
    /\ LET dfb == dfb_iteration(buildings, own)
           rep == report_iteration(buildings, own)
       IN  /\ investments_by_type' =
                IF ~dfb.skip /\ dfb.foreign
                THEN Add(investments_by_type,
                         <<dfb.owner_country[1], dfb.target_country[1],
                           dfb.formatted_building_type>>, dfb.levels)
                ELSE investments_by_type
           /\ dfb_foreign_owned_within' =
                IF ~dfb.skip /\ dfb.foreign
                THEN Add(dfb_foreign_owned_within,
                         <<dfb.target_country[1], dfb.owner_country[1],
                           dfb.formatted_building_type>>, dfb.levels)
                ELSE dfb_foreign_owned_within
           /\ report_foreign_investments' =
                IF ~rep.skip /\ rep.owner_country # rep.state_owner
                THEN Add(report_foreign_investments,
                         <<rep.owner_country[1], rep.state_owner[1]>>, rep.annual_value)
                ELSE report_foreign_investments
           /\ domestic_value' =
                IF ~rep.skip
                THEN Add(domestic_value, rep.state_owner[1], rep.annual_value)
                ELSE domestic_value
    /\ UNCHANGED <<shape_vars, save_data, twice_vars, humans_vars, bloc_vars, gdp_vars>>

WalksNext == \E own \in WalkOwnershipInputs : ProcessWalks(own)

SpecWalks == WalksInit /\ [][WalksNext]_vars

-----------------------------------------------------------------------------
(* super_simple_foreign_report: conservation of levels *)

\* the sum of the values of a dict
Total(d) == SumOver(DOMAIN d, d)

\* analyze_simple_foreign_ownership counts the record as foreign
CountedBySimple(own) ==
    LET ss == ss_iteration(buildings, own)
    IN  ~ss.skip /\ ss.foreign

RECURSIVE CountedLevels(_)
\* the levels of the records of the list that are counted as foreign
CountedLevels(records) ==
    IF records = <<>> THEN 0
    ELSE (IF CountedBySimple(Head(records)) THEN Head(records).levels ELSE 0)
         + CountedLevels(Tail(records))

\* C24: after any prefix of the ownership records, the sum over all countries
\* of levels_owned_abroad equals the sum over all countries of
\* levels_foreign_owned_within, and both equal the total levels of the records
\* counted as foreign so far.
C24_LevelConservation ==
    /\ Total(levels_owned_abroad) = Total(levels_foreign_owned_within)
    /\ Total(levels_owned_abroad) = CountedLevels(ownership_data)

\* C24 witness: two records counted as foreign, of two owners in two hosts,
\* have been added up: each dict has two keys and the totals are the levels of both
C24_Witness ==
    /\ Len(ownership_data) = 2
    /\ CountedBySimple(ownership_data[1]) /\ CountedBySimple(ownership_data[2])
    /\ DOMAIN levels_owned_abroad = {1, 2}
    /\ DOMAIN levels_foreign_owned_within = {1, 2}
    /\ Total(levels_owned_abroad) = ownership_data[1].levels + ownership_data[2].levels
    /\ ownership_data[1].levels # ownership_data[2].levels

\* two records of one owner in one host have been added under one key
SameKeyAdded ==
    /\ Len(ownership_data) = 2
    /\ CountedBySimple(ownership_data[1]) /\ CountedBySimple(ownership_data[2])
    /\ DOMAIN levels_owned_abroad = {1}
    /\ levels_owned_abroad[1] = 7

\* a record that is not counted has left the totals as they were
NotCountedLeftOut ==
    /\ Len(ownership_data) = 2
    /\ CountedBySimple(ownership_data[1]) /\ ~CountedBySimple(ownership_data[2])
    /\ Total(levels_foreign_owned_within) = ownership_data[1].levels


-----------------------------------------------------------------------------
(* The ownership walks: an identity with both keys *)

\* the record just processed names a country and a building in its identity
BothKeys == Processed /\ DOMAIN ownership.identity = {"country", "building"}

\* the building table without the building the identity names
WithoutOwningBuilding ==
    LET owner_building_id == Str(Some(ownership.identity.building))
    IN  [k \in DOMAIN buildings \ {owner_building_id} |-> buildings[k]]

\* C25: when the identity of a record carries both a country key and a building
\* key, the owner found by true_gdp_ownership, super_simple_foreign_report and
\* ownership_by_entity is identity.country, the entity type is
\* "Direct Government", and the owning building is never looked up: the
\* iteration ends the same with that building taken off the building table.
C25_IdentityPrecedence ==
    BothKeys =>
        /\ ~loc.tg.skip /\ loc.tg.owner_country = Some(ownership.identity.country)
        /\ ~loc.ss.skip /\ loc.ss.owner_country = Some(ownership.identity.country)
        /\ ~loc.obe.skip /\ loc.obe.owner_country = Some(ownership.identity.country)
        /\ loc.obe.entity_type = "Direct Government"
        /\ loc.obe = obe_iteration(WithoutOwningBuilding, ownership)
        /\ loc.tg = tg_iteration(WithoutOwningBuilding, ownership)

\* C25 witness: a stake in a building of country 2 names country 1 and the
\* company HQ 200, which stands in country 2 itself; it has been counted as a
\* foreign stake of country 1 held by the government
C25_Witness ==
    /\ BothKeys
    /\ ownership.identity = [country |-> 1, building |-> 200]
    /\ Get(buildings["200"], "state") = Some(50)
    /\ Get(buildings["200"], "building") = Some(chunk_building \o pat_company \o chunk_hq)
    /\ loc.obe.target_country = Some(2)
    /\ loc.obe.foreign /\ loc.tg.foreign
    /\ <<1, 2, "Direct Government">> \in DOMAIN investments_by_entity
    /\ <<1, 2>> \in DOMAIN foreign_investments

\* the same through the building alone is a domestic stake and is not counted
BuildingAloneDomestic ==
    /\ Processed
    /\ ownership.identity = [building |-> 200]
    /\ Get(buildings["200"], "state") = Some(50)
    /\ ~loc.obe.foreign
    /\ loc.obe.owner_country = Some(2)

\* both keys with a building that is not on record
BothKeysBuildingMissing ==
    /\ BothKeys
    /\ ownership.identity.building = 999
    /\ loc.obe.foreign
    /\ loc.obe.entity_type = "Direct Government"


-----------------------------------------------------------------------------
(* The ID 0: the resolver, then every ownership walk *)

\* the subject pacts of the document: between the countries 0, 1 and 2
ZeroPactInputs ==
    {[action |-> "puppet", targets |-> [first |-> p[1], second |-> p[2]]] :
        p \in {q \in {0, 1, 2} \X {0, 1, 2} : q[1] # q[2]}}

\* the building table: building 100 stands in country 2 or in the country
\* whose ID is 0
ZeroBuildingInputs ==
    {("100" :> [building |-> tag_owned, state |-> s, levels |-> 10,
                cash_reserves |-> 1000, profit_after_reserves |-> 0])
     @@ OwnerBuildings : s \in {50, 52}}

\* the records: stakes in building 100 of country 0, of country 1, of the
\* regional company 202 standing in country 0 and of the company 200 of
\* country 1
ZeroOwnershipInputs ==
    [building : {100}, levels : {3},
     identity : {[country |-> 0], [country |-> 1], [building |-> 202], [building |-> 200]}]

ZeroInit ==
    /\ \E n \in 0..MaxPacts : pacts \in [1..n -> ZeroPactInputs]
    /\ pact_idx = 1
    /\ ds_keys = <<>>
    /\ direct_subjects = <<>>
    /\ all_subjects = <<>>
    /\ ov_idx = 1
    /\ stack = <<>>
    /\ visited = {}
    /\ expansions = [c \in CountryIds |-> 0]
    /\ pc = "run"
    /\ buildings \in ZeroBuildingInputs
    /\ ownership = EmptyDict
    /\ own_count = 0
    /\ loc = [tg |-> [skip |-> TRUE], ss |-> [skip |-> TRUE], obe |-> [skip |-> TRUE],
              eff |-> [skip |-> TRUE], sc |-> [skip |-> TRUE]]
    /\ foreign_investments = EmptyDict
    /\ levels_owned_abroad = EmptyDict
    /\ levels_foreign_owned_within = EmptyDict
    /\ investments_by_entity = EmptyDict
    /\ ownership_matrix = EmptyDict
    /\ sc_ownership_matrix = EmptyDict
    /\ ownership_data = <<>>
    /\ WalksIdle
    /\ ShapeIdle
    /\ SectionsIdle
    /\ TwiceIdle
    /\ HumansIdle
    /\ BlocsIdle
    /\ ClsIdle

\* the ownership loops, once the resolver has returned
ZeroOwn ==
    /\ pc = "done"
    /\ \E own \in ZeroOwnershipInputs : ProcessWalks(own)

ZeroNext == SubjNext \/ ZeroOwn

SpecZero == ZeroInit /\ [][ZeroNext]_vars

\* the dicts of foreign totals keyed by (owner, host, ...)
ForeignTotals ==
    <<foreign_investments, investments_by_entity, investments_by_type,
      report_foreign_investments, ownership_matrix, sc_ownership_matrix>>

\* the ID 0 is owner or host in no key of the foreign totals
NoZeroInTotals ==
    /\ \A i \in 1..Len(ForeignTotals) :
          \A k \in DOMAIN ForeignTotals[i] : k[1] # 0 /\ k[2] # 0
    /\ \A k \in DOMAIN dfb_foreign_owned_within : k[1] # 0 /\ k[2] # 0
    /\ 0 \notin DOMAIN levels_owned_abroad
    /\ 0 \notin DOMAIN levels_foreign_owned_within

\* the ID 0 is overlord or subject in no relation
NoZeroInRelations ==
    /\ 0 \notin DOMAIN direct_subjects
    /\ \A o \in DOMAIN direct_subjects : 0 \notin Range(direct_subjects[o])
    /\ 0 \notin DOMAIN all_subjects
    /\ \A o \in DOMAIN all_subjects : 0 \notin Range(all_subjects[o])

\* the record just processed has the ID 0 as resolved owner or as host
ZeroRecord ==
    /\ Processed
    /\ \/ resolve_owner(buildings, ownership.identity) = Some(0)
       \/ HostOf(ownership) = Some(0)

\* no walk has counted the record just processed as foreign
CountedByNone ==
    /\ loc.tg.skip \/ ~loc.tg.foreign
    /\ loc.ss.skip \/ ~loc.ss.foreign
    /\ loc.obe.skip \/ ~loc.obe.foreign
    /\ loc.eff.skip
    /\ loc.sc.skip

\* C26: a record whose resolved owner country or host country is the ID 0 is
\* counted as foreign by no walk and the ID 0 is owner or host in no key of any
\* foreign total; a subject pact whose overlord or subject is the ID 0 adds no
\* relation, so 0 is neither an overlord nor a subject in direct_subjects and
\* all_subjects.
C26_ZeroIdMissing ==
    /\ ZeroRecord => CountedByNone
    /\ NoZeroInTotals
    /\ NoZeroInRelations

\* C26 witness: the pacts 0 -> 1 and 1 -> 2 have been resolved to the one
\* relation 1 -> 2; a stake of country 1 in country 2 has been counted and a
\* stake of country 0 in country 2 has added nothing
C26_Witness ==
    /\ pc = "done"
    /\ Len(pacts) = 2
    /\ pacts[1].targets = [first |-> 0, second |-> 1]
    /\ pacts[2].targets = [first |-> 1, second |-> 2]
    /\ DOMAIN all_subjects = {1} /\ all_subjects[1] = <<2>>
    /\ own_count = 2
    /\ ownership_data[1].identity = [country |-> 1]
    /\ ownership.identity = [country |-> 0]
    /\ CountryOfBuilding(Some(100)) = Some(2)
    /\ DOMAIN foreign_investments = {<<1, 2>>}
    /\ DOMAIN levels_owned_abroad = {1}
    /\ levels_owned_abroad[1] = 3

\* a stake in a building that stands in country 0 has added nothing
ZeroHostAddsNothing ==
    /\ own_count = 1
    /\ ownership.identity = [country |-> 1]
    /\ CountryOfBuilding(Some(100)) = Some(0)
    /\ foreign_investments = EmptyDict
    /\ levels_foreign_owned_within = EmptyDict
    /\ investments_by_type = EmptyDict

\* a stake held through a building that stands in country 0 has added nothing
ZeroOwnerThroughBuilding ==
    /\ own_count = 1
    /\ ownership.identity = [building |-> 202]
    /\ CountryOfBuilding(Some(100)) = Some(2)
    /\ loc.obe.owner_country = Some(0)
    /\ investments_by_entity = EmptyDict

\* a pact with the subject 0 has added nothing
ZeroSubjectNoRelation ==
    /\ pc = "done"
    /\ Len(pacts) = 1
    /\ pacts[1].targets = [first |-> 1, second |-> 0]
    /\ all_subjects = <<>>


-----------------------------------------------------------------------------
(* foreign_ownership_report: direct stakes only *)

\* the record names no country in its identity
NamesNoCountry(own) == "country" \notin DOMAIN GetOr(own, "identity", EmptyDict)

\* C27: calculate_foreign_ownership of foreign_ownership_report attributes only
\* records whose identity names a country: a step that processes a record whose
\* identity is a building changes neither foreign_investments nor
\* domestic_value of that report.
C27_DirectOnly ==
    [][NamesNoCountry(ownership')
          => UNCHANGED <<report_foreign_investments, domestic_value>>]_vars

\* C27 witness: a direct stake of country 1 in country 2 has been attributed by
\* the report; a stake of the company HQ 200 of country 1 in the same building
\* has then been counted by the level walk and has left the report as it was
C27_Witness ==
    /\ own_count = 2
    /\ ownership_data[1].identity = [country |-> 1]
    /\ ownership_data[1].building = 100
    /\ ownership.identity = [building |-> 200]
    /\ ownership.building = 100
    /\ CountedBySimple(ownership)
    /\ levels_owned_abroad[1] = ownership_data[1].levels + ownership.levels
    /\ DOMAIN report_foreign_investments = {<<1, 2>>}
    /\ report_foreign_investments[<<1, 2>>]
         = report_building_value(ownership_data[1].levels, buildings["100"])
    /\ domestic_value = (2 :> report_foreign_investments[<<1, 2>>])

\* only stakes through buildings: the report has nothing, the level walk has
BuildingStakesAbsent ==
    /\ own_count = 2
    /\ \A i \in 1..2 : NamesNoCountry(ownership_data[i]) /\ CountedBySimple(ownership_data[i])
    /\ report_foreign_investments = EmptyDict
    /\ domestic_value = EmptyDict
    /\ levels_owned_abroad # EmptyDict

\* a domestic direct stake is added to domestic_value alone
DomesticDirectStake ==
    /\ own_count = 1
    /\ ownership.identity = [country |-> 2]
    /\ ownership.building = 100
    /\ report_foreign_investments = EmptyDict
    /\ DOMAIN domestic_value = {2}


-----------------------------------------------------------------------------
(* The three level-based reports agree *)

\* the levels a dict keyed by (owner, ...) holds for the owner
OwnedBy(d, owner) == SumOver({k \in DOMAIN d : k[1] = owner}, d)

\* the owners a dict keyed by (owner, ...) holds
OwnersIn(d) == {k[1] : k \in DOMAIN d}

\* detailed_foreign_buildings counts the record as foreign
CountedByDetailed(own) ==
    LET dfb == dfb_iteration(buildings, own)
    IN  ~dfb.skip /\ dfb.foreign

\* ownership_by_entity counts the record as foreign
CountedByEntity(own) ==
    LET obe == obe_iteration(buildings, own)
    IN  ~obe.skip /\ obe.foreign

\* C28: for each owner country, levels_owned_abroad[owner] of
\* super_simple_foreign_report equals the sum over all hosts and building types
\* of investments_by_type[owner] of detailed_foreign_buildings and the sum over
\* all hosts and entity keys of investments_by_entity[owner] of
\* ownership_by_entity; the three reports hold the same owners, and a record
\* counted as foreign by one is counted by all.
C28_WalksAgree ==
    /\ OwnersIn(investments_by_type) = DOMAIN levels_owned_abroad
    /\ OwnersIn(investments_by_entity) = DOMAIN levels_owned_abroad
    /\ \A owner \in DOMAIN levels_owned_abroad :
          /\ levels_owned_abroad[owner] = OwnedBy(investments_by_type, owner)
          /\ levels_owned_abroad[owner] = OwnedBy(investments_by_entity, owner)
    /\ \A i \in 1..Len(ownership_data) :
          /\ CountedBySimple(ownership_data[i]) <=> CountedByDetailed(ownership_data[i])
          /\ CountedBySimple(ownership_data[i]) <=> CountedByEntity(ownership_data[i])

\* C28 witness: country 1 holds a direct stake in mill 100 and, through its
\* company HQ, a stake in mill 101, whose tag is spelled differently, both in
\* country 2: one key by building type, two keys by entity, 7 levels in each
\* report
C28_Witness ==
    /\ own_count = 2
    /\ ownership_data[1] = [building |-> 100, levels |-> 3, identity |-> [country |-> 1]]
    /\ ownership_data[2] = [building |-> 101, levels |-> 4, identity |-> [building |-> 200]]
    /\ levels_owned_abroad = (1 :> 7)
    /\ Cardinality(DOMAIN investments_by_type) = 1
    /\ Cardinality(DOMAIN investments_by_entity) = 2
    /\ OwnedBy(investments_by_type, 1) = 7
    /\ OwnedBy(investments_by_entity, 1) = 7

\* a domestic stake through a building is counted by none of the three
DomesticCountedByNone ==
    /\ own_count = 1
    /\ ownership.identity = [building |-> 201]
    /\ ownership.building = 100
    /\ ~CountedBySimple(ownership) /\ ~CountedByDetailed(ownership) /\ ~CountedByEntity(ownership)
    /\ levels_owned_abroad = EmptyDict
    /\ investments_by_type = EmptyDict
    /\ investments_by_entity = EmptyDict

\* two owners, each with its own levels in the three reports
TwoOwnersAgree ==
    /\ own_count = 2
    /\ DOMAIN levels_owned_abroad = {1, 2}
    /\ levels_owned_abroad[1] # levels_owned_abroad[2]


-----------------------------------------------------------------------------
(* The two effective-GDP calculations *)

\* int(country_id) on the keys of the country table
IntOf == ("0" :> 0) @@ ("1" :> 1) @@ ("2" :> 2)

\* min_credit_base = 100000.0; credit_scale_factor = 0.5, so that dividing by
\* it doubles
min_credit_base == 100000

\* effective_gdp_report.calculate_true_gdp: country_building_reserves[country_id]
country_building_reserves(bs, country_id) ==
    LET counted == {b \in DOMAIN bs :
                       /\ GetOr(bs[b], "cash_reserves", 0) > 0
                       /\ Str(Get(bs[b], "state")) \in DOMAIN states
                       /\ Truthy(Get(states[Str(Get(bs[b], "state"))], "country"))
                       /\ Get(states[Str(Get(bs[b], "state"))], "country") = Some(country_id)}
    IN  SumOver(counted, [b \in counted |-> bs[b].cash_reserves])

\* effective_gdp_report.calculate_true_gdp: country -> base GDP, for the
\* countries with a positive credit and a positive result
calculate_true_gdp(credits, bs) ==
    LET calculated_gdp(c) ==
            (credits[c] - min_credit_base - country_building_reserves(bs, IntOf[c])) * 2
        kept == {c \in DOMAIN credits : credits[c] > 0 /\ calculated_gdp(c) > 0}
    IN  [i \in {IntOf[c] : c \in kept} |-> calculated_gdp(Str(Some(i)))]

\* session_comparison.calculate_effective_gdp: country_building_reserves[country_id]
sc_country_building_reserves(bs, country_id) ==
    LET counted == {b \in DOMAIN bs :
                       /\ GetOr(bs[b], "cash_reserves", 0) > 0
                       /\ Str(Get(bs[b], "state")) \in DOMAIN states
                       /\ Truthy(Get(states[Str(Get(bs[b], "state"))], "country"))
                       /\ Get(states[Str(Get(bs[b], "state"))], "country") = Some(country_id)}
    IN  SumOver(counted, [b \in counted |-> bs[b].cash_reserves])

\* session_comparison.calculate_effective_gdp: country_base_gdps
sc_country_base_gdps(credits, bs) ==
    LET calculated_gdp(c) ==
            (credits[c] - min_credit_base - sc_country_building_reserves(bs, IntOf[c])) * 2
        kept == {c \in DOMAIN credits : credits[c] > 0 /\ calculated_gdp(c) > 0}
    IN  [i \in {IntOf[c] : c \in kept} |-> calculated_gdp(Str(Some(i)))]

\* the sum over every owner of the host, the country itself included
sc_foreign_owned_any_owner(matrix, country_id) ==
    SumOver({k \in DOMAIN matrix : k[2] = country_id}, matrix)

\* session_comparison: the value foreign-owned inside country_id
sc_foreign_owned_in_country(matrix, country_id) ==
    SumOver({k \in DOMAIN matrix : k[1] # country_id /\ k[2] = country_id}, matrix)

\* session_comparison: the value country_id owns abroad
sc_gdp_owned_abroad(matrix, country_id) ==
    SumOver({k \in DOMAIN matrix : k[1] = country_id /\ k[2] # country_id}, matrix)

\* session_comparison.calculate_effective_gdp: the last loop
sc_calculate_effective_gdp(base_gdps, matrix) ==
    [country_id \in DOMAIN base_gdps |->
        LET domestic_control ==
                base_gdps[country_id] - sc_foreign_owned_in_country(matrix, country_id)
        IN  domestic_control + sc_gdp_owned_abroad(matrix, country_id)]

\* effective_gdp_report.calculate_effective_gdp: the loop over country_gdps;
\* of the record of a country the display tag is left out
calculate_effective_gdp(country_gdps, matrix) ==
    [country_id \in DOMAIN country_gdps |->
        LET base_gdp == country_gdps[country_id]
            inside == foreign_owned_in_country(matrix, country_id)
            abroad == gdp_owned_abroad(matrix, country_id)
            domestic_control == base_gdp - inside
        IN  [base_gdp |-> base_gdp,
             domestic_control |-> domestic_control,
             gdp_owned_abroad |-> abroad,
             total_effective |-> domestic_control + abroad,
             foreign_owned_in_country |-> inside]]

\* budget.credit of the countries 1 and 2: no credit, a credit that leaves no
\* positive GDP once the reserves are taken off, and one that does; the country
\* whose ID is 0 has a credit
CreditInputs ==
    {("0" :> 104000) @@ ("1" :> c1) @@ ("2" :> c2) :
        c1 \in {0, 100500, 104000}, c2 \in {0, 100500, 104000}}

\* the records: stakes in the two mills held by the countries 1 and 2 or
\* through a building of each
GdpOwnershipInputs ==
    [building : {100, 101}, levels : {3},
     identity : {[country |-> 1], [country |-> 2], [building |-> 200], [building |-> 201]}]

GdpInit ==
    /\ buildings \in WalkBuildingInputs
    /\ country_credit \in CreditInputs
    /\ country_effective_gdps = None
    /\ effective_gdp_data = None
    /\ ownership = EmptyDict
    /\ own_count = 0
    /\ loc = [tg |-> [skip |-> TRUE], ss |-> [skip |-> TRUE], obe |-> [skip |-> TRUE],
              eff |-> [skip |-> TRUE], sc |-> [skip |-> TRUE]]
    /\ foreign_investments = EmptyDict
    /\ levels_owned_abroad = EmptyDict
    /\ levels_foreign_owned_within = EmptyDict
    /\ investments_by_entity = EmptyDict
    /\ ownership_matrix = EmptyDict
    /\ sc_ownership_matrix = EmptyDict
    /\ investments_by_type = EmptyDict
    /\ dfb_foreign_owned_within = EmptyDict
    /\ report_foreign_investments = EmptyDict
    /\ domestic_value = EmptyDict
    /\ ShapeIdle
    /\ SectionsIdle
    /\ RecordsIdle
    /\ TwiceIdle
    /\ HumansIdle
    /\ BlocsIdle
    /\ SubjIdle
    /\ ClsIdle

\* one iteration of the ownership loop of both calculations
GdpOwn ==
    /\ country_effective_gdps = None
    /\ \E own \in GdpOwnershipInputs : ProcessOwnership(own)
    /\ UNCHANGED ext_vars

\* the ownership records are exhausted: base GDP and the last loop of both
\* calculations, which then return
CalculateEffectiveGdp ==
    /\ country_effective_gdps = None
    /\ country_effective_gdps' =
          Some(sc_calculate_effective_gdp(sc_country_base_gdps(country_credit, buildings),
                                          sc_ownership_matrix))
    /\ effective_gdp_data' =
          Some(calculate_effective_gdp(calculate_true_gdp(country_credit, buildings),
                                       ownership_matrix))
    /\ UNCHANGED <<subj_vars, own_vars, cls_vars, shape_vars, save_data, ownership_data,
                   twice_vars, humans_vars, bloc_vars, investments_by_type,
                   dfb_foreign_owned_within, report_foreign_investments, domestic_value,
                   country_credit>>

GdpNext == GdpOwn \/ CalculateEffectiveGdp

SpecGdp == GdpInit /\ [][GdpNext]_vars

\* both calculations have returned
Calculated == country_effective_gdps # None /\ effective_gdp_data # None

\* the value held inside the host by other countries, from the matrix
ForeignInside(c) ==
    SumOver({k \in DOMAIN ownership_matrix : k[2] = c /\ k[1] # c}, ownership_matrix)

\* the value the country holds in other countries, from the matrix
HeldAbroad(c) ==
    SumOver({k \in DOMAIN ownership_matrix : k[1] = c /\ k[2] # c}, ownership_matrix)

\* C29: for every country, calculate_effective_gdp of session_comparison returns
\* the value total_effective of calculate_effective_gdp of effective_gdp_report,
\* which is base GDP minus the value foreign-owned inside the country plus the
\* value it owns abroad, and both define it for the same set of countries, the
\* countries with a base GDP.
C29_EffectiveGdpAgree ==
    Calculated =>
        LET sc == country_effective_gdps[1]
            eff == effective_gdp_data[1]
            base == calculate_true_gdp(country_credit, buildings)
        IN  /\ DOMAIN sc = DOMAIN eff
            /\ DOMAIN sc = DOMAIN base
            /\ \A c \in DOMAIN sc :
                  /\ sc[c] = eff[c].total_effective
                  /\ sc[c] = base[c] - ForeignInside(c) + HeldAbroad(c)

\* C29 witness: countries 1 and 2 have a base GDP; country 1 holds a stake in
\* country 2 and a stake at home; both calculations give country 1 more and
\* country 2 less than its base GDP
C29_Witness ==
    /\ Calculated
    /\ {1, 2} \subseteq DOMAIN country_effective_gdps[1]
    /\ {<<1, 2>>, <<1, 1>>} \subseteq DOMAIN ownership_matrix
    /\ country_effective_gdps[1][1] > effective_gdp_data[1][1].base_gdp
    /\ country_effective_gdps[1][2] < effective_gdp_data[1][2].base_gdp
    /\ effective_gdp_data[1][2].foreign_owned_in_country = ownership_matrix[<<1, 2>>]

\* a country whose credit leaves no positive GDP has no effective GDP in either
NoBaseNoEffective ==
    /\ Calculated
    /\ country_credit["2"] = 100500
    /\ 2 \notin DOMAIN country_effective_gdps[1]
    /\ 2 \notin DOMAIN effective_gdp_data[1]
    /\ <<2, 1>> \in DOMAIN ownership_matrix

\* the country whose ID is 0 has its base GDP as effective GDP
ZeroCountryHasBase ==
    /\ Calculated
    /\ own_count = 2
    /\ 0 \in DOMAIN country_effective_gdps[1]
    /\ country_effective_gdps[1][0] = 8000


-----------------------------------------------------------------------------
(* gdp_treemap_plotly: the groups of the treemap *)

\* analyze_power_blocs of gdp_treemap_plotly has gone through every bloc and
\* gathered the independent countries
GroupsComplete == bloc_idx = Len(power_blocs) + 2

\* the groups of the treemap holding the country
GroupsOf(c) == {g \in DOMAIN bloc_members : c \in Range(bloc_members[g])}

\* the countries with positive GDP
PositiveGdp == {c \in BlocCountries : country_gdp[c] > 0}

\* C30 (as claimed): when analyze_power_blocs of gdp_treemap_plotly returns,
\* every country with positive GDP is in exactly one group, an active power
\* bloc or the independent countries, for every order of the blocs; the
\* total_count values of bloc_totals sum to the number of countries with
\* positive GDP and the total_gdp values to their GDP.
C30_BlocPartition ==
    GroupsComplete =>
        /\ \A c \in PositiveGdp : Cardinality(GroupsOf(c)) = 1
        /\ SumOver(DOMAIN bloc_members,
                   [g \in DOMAIN bloc_members |-> bloc_totals(g).total_count])
             = Cardinality(PositiveGdp)
        /\ SumOver(DOMAIN bloc_members,
                   [g \in DOMAIN bloc_members |-> bloc_totals(g).total_gdp])
             = SumOver(PositiveGdp, country_gdp)

\* every country with positive GDP is in some group, and only such countries are
EveryCountryPlaced ==
    GroupsComplete =>
        /\ \A c \in PositiveGdp : GroupsOf(c) # {}
        /\ \A g \in DOMAIN bloc_members : Range(bloc_members[g]) \subseteq PositiveGdp

\* a country is in two groups only as a subject placed in one bloc and then
\* as a core member of a bloc processed later
TwiceOnlyAsLaterCore ==
    GroupsComplete =>
        \A c \in PositiveGdp :
            Cardinality(GroupsOf(c)) > 1 =>
                /\ Independent \notin GroupsOf(c)
                /\ Cardinality(GroupsOf(c)) = 2
                /\ core_of[c] # None /\ core_of[c][1] \in GroupsOf(c)
                /\ all_countries[c].is_subject
                /\ \E o \in DOMAIN all_subjects : c \in Range(all_subjects[o])

\* country 2, a subject of country 1 of bloc 1 and a core member of bloc 2, is
\* in both blocs: three countries, a count of four
CoreMemberPlacedTwice ==
    /\ GroupsComplete
    /\ power_blocs = <<1, 2>>
    /\ core_of = (1 :> Some(1)) @@ (2 :> Some(2)) @@ (3 :> None)
    /\ all_subjects = (1 :> <<2>>)
    /\ PositiveGdp = {1, 2, 3}
    /\ bloc_members = (1 :> <<1, 2>>) @@ (2 :> <<2>>) @@ (Independent :> <<3>>)
    /\ bloc_totals(1).total_count + bloc_totals(2).total_count
         + bloc_totals(Independent).total_count = 4

\* the same document with bloc 2 listed first: country 2 is placed once
OtherOrderPlacedOnce ==
    /\ GroupsComplete
    /\ power_blocs = <<2, 1>>
    /\ core_of = (1 :> Some(1)) @@ (2 :> Some(2)) @@ (3 :> None)
    /\ all_subjects = (1 :> <<2>>)
    /\ PositiveGdp = {1, 2, 3}
    /\ bloc_members = (1 :> <<1>>) @@ (2 :> <<2>>) @@ (Independent :> <<3>>)

====
